---- MODULE Spec2Model ----
(***************************************************************************)
(* Model of the regime-driven backtesting engine, backend/engine.py        *)
(* (class BacktestEngine), with the parts of backend/models.py and         *)
(* backend/price_data.py it uses.                                          *)
(*                                                                         *)
(* Money, share counts, prices and weights are Python floats in the code.  *)
(* Here they are exact rationals [n |-> numerator, d |-> denominator],     *)
(* kept in lowest terms with d > 0, so that equalities between amounts are *)
(* the equalities of real arithmetic (floating-point rounding is not       *)
(* modelled).  The value None of an Optional[float] is the record Absent,  *)
(* whose denominator is 0 and which is therefore no rational.              *)
(***************************************************************************)
EXTENDS Integers, Sequences, FiniteSets, TLC

(***************************************************************************)
(* Bounds of the model.                                                    *)
(***************************************************************************)
\* number of signal-feed dates inside the backtest window
MaxDays == 2
\* prices in the cache are drawn from 1..MaxPrice
MaxPrice == 2
\* confirming counts offered to the transition policy are drawn from 0..MaxCount
MaxCount == 3

(***************************************************************************)
(* Exact rational arithmetic standing for Python float arithmetic.         *)
(***************************************************************************)
RECURSIVE GCD(_, _)
GCD(a, b) == IF b = 0 THEN a ELSE GCD(b, a % b)

Abs(x) == IF x < 0 THEN -x ELSE x

Rat(n, d) ==
    LET s == IF d < 0 THEN -1 ELSE 1
        g == GCD(Abs(n), Abs(d))
    IN  [n |-> (s * n) \div g, d |-> (s * d) \div g]

R(i) == [n |-> i, d |-> 1]

Zero == R(0)

\* (the operands of the four operations are bound once, as x and y, so that
\* a nested expression is evaluated once wherever it stands)
RAdd(a, b) ==
    CHOOSE r \in {Rat(x.n * y.d + y.n * x.d, x.d * y.d) : x \in {a}, y \in {b}} : TRUE

RSub(a, b) ==
    CHOOSE r \in {Rat(x.n * y.d - y.n * x.d, x.d * y.d) : x \in {a}, y \in {b}} : TRUE

RMul(a, b) ==
    CHOOSE r \in {Rat(x.n * y.n, x.d * y.d) : x \in {a}, y \in {b}} : TRUE

\* a / b, for b # 0
RDiv(a, b) ==
    CHOOSE r \in {Rat(x.n * y.d, x.d * y.n) : x \in {a}, y \in {b}} : TRUE

RLt(a, b) == a.n * b.d < b.n * a.d

RLe(a, b) == a.n * b.d <= b.n * a.d

RGt(a, b) == RLt(b, a)

RAbs(a) == [n |-> Abs(a.n), d |-> a.d]

\* None, as returned by _get_price
Absent == [n |-> 0, d |-> 0]

\* Python truthiness of an Optional[float]: None and 0.0 are false
Truthy(p) == p.n # 0

\* Python's  p or fallback
OrElse(p, fallback) == IF Truthy(p) THEN p ELSE fallback

(***************************************************************************)
(* Regimes and the transition policy.                                      *)
(***************************************************************************)
\* the keys of the confirmings dict, in insertion order
RegimeOrder == <<"GOLDILOCKS", "REFLATION", "INFLATION", "DEFLATION">>

Regimes == {RegimeOrder[i] : i \in 1..4}

\* OPPOSING_REGIMES that pairs each regime with the next of the order
OPPOSING_REGIMES_Cyclic ==
    [r \in Regimes |->
        CASE r = "GOLDILOCKS" -> "REFLATION"
          [] r = "REFLATION" -> "INFLATION"
          [] r = "INFLATION" -> "DEFLATION"
          [] r = "DEFLATION" -> "GOLDILOCKS"]

OPPOSING_REGIMES ==
    [r \in Regimes |->
        CASE r = "GOLDILOCKS" -> "DEFLATION"
          [] r = "DEFLATION" -> "GOLDILOCKS"
          [] r = "REFLATION" -> "INFLATION"
          [] r = "INFLATION" -> "REFLATION"]

RISK_ON_REGIMES == {"GOLDILOCKS", "REFLATION"}

RISK_OFF_REGIMES == {"INFLATION", "DEFLATION"}

\* the regime change threshold on sum_confirming_markets
SumThreshold == 59

\* the spread a candidate must exceed over its opposing regime
SpreadThreshold == 2

\* the default of row.vams.get("XLK", -2)
XlkDefault == -2

\* Optional[str] None
NoRegime == "None"

\* the confirmings dict built by _check_regime_change
Confirmings(row) ==
    [r \in Regimes |->
        CASE r = "GOLDILOCKS" -> row.goldilocks_confirming
          [] r = "REFLATION" -> row.reflation_confirming
          [] r = "INFLATION" -> row.inflation_confirming
          [] r = "DEFLATION" -> row.deflation_confirming]

\* Candidate that takes the last key, in insertion order, whose value is the
\* maximum
Candidate_LastOfTies(row) ==
    LET c == Confirmings(row)
        i == CHOOSE k \in 1..4 :
                /\ \A j \in 1..4 : c[RegimeOrder[j]] <= c[RegimeOrder[k]]
                /\ \A j \in (k + 1)..4 : c[RegimeOrder[j]] < c[RegimeOrder[k]]
    IN  RegimeOrder[i]

\* max(confirmings, key=confirmings.get): the first key, in insertion order,
\* whose value is the maximum
Candidate(row) ==
    LET c == Confirmings(row)
        i == CHOOSE k \in 1..4 :
                /\ \A j \in 1..4 : c[RegimeOrder[j]] <= c[RegimeOrder[k]]
                /\ \A j \in 1..(k - 1) : c[RegimeOrder[j]] < c[RegimeOrder[k]]
    IN  RegimeOrder[i]

\* CheckRegimeChange with the gate at sum < 59 instead of sum <= 59
CheckRegimeChange_GateExclusive(row, current) ==
    IF row.sum_confirming_markets < SumThreshold
    THEN NoRegime
    ELSE LET c == Confirmings(row)
             candidate == Candidate(row)
         IN  IF candidate = current
             THEN NoRegime
             ELSE IF c[candidate] - c[OPPOSING_REGIMES[candidate]] > SpreadThreshold
                  THEN candidate
                  ELSE NoRegime

\* CheckRegimeChange with the spread test at >= 2 instead of > 2
CheckRegimeChange_SpreadInclusive(row, current) ==
    IF row.sum_confirming_markets <= SumThreshold
    THEN NoRegime
    ELSE LET c == Confirmings(row)
             candidate == Candidate(row)
         IN  IF candidate = current
             THEN NoRegime
             ELSE IF c[candidate] - c[OPPOSING_REGIMES[candidate]] >= SpreadThreshold
                  THEN candidate
                  ELSE NoRegime

\* CheckRegimeChange that falls back to any other regime passing the spread
\* test when the candidate is the current regime or fails the test
CheckRegimeChange_SecondBest(row, current) ==
    IF row.sum_confirming_markets <= SumThreshold
    THEN NoRegime
    ELSE LET c == Confirmings(row)
             candidate == Candidate(row)
             passing == {r \in Regimes \ {current} :
                            c[r] - c[OPPOSING_REGIMES[r]] > SpreadThreshold}
         IN  IF candidate # current
                /\ c[candidate] - c[OPPOSING_REGIMES[candidate]] > SpreadThreshold
             THEN candidate
             ELSE IF passing # {}
                  THEN CHOOSE r \in passing : TRUE
                  ELSE NoRegime

CheckRegimeChange(row, current) ==
    IF row.sum_confirming_markets <= SumThreshold
    THEN NoRegime
    ELSE LET c == Confirmings(row)
             candidate == Candidate(row)
         IN  IF candidate = current
             THEN NoRegime
             ELSE IF c[candidate] - c[OPPOSING_REGIMES[candidate]] > SpreadThreshold
                  THEN candidate
                  ELSE NoRegime

IsRiskOn(regime) == regime \in RISK_ON_REGIMES

(***************************************************************************)
(* Instruments, the price cache and the allocation profile.                *)
(***************************************************************************)
\* the instruments of the model's allocation profiles
Tickers == {"GLD", "TLT", "SHV", "Bitcoin"}

\* _allocate_to_regime and _get_required_tickers leave these out
Crypto == {"Bitcoin", "Ethereum"}

ReserveTicker == "SHV"

\* the price used for SHV when the cache has none
ShvFallbackPrice == 110

\* the price used for the benchmark when the cache has none on the first day
BenchmarkFallbackPrice == 100

\* the share of the portfolio moved to SHV on a risk-off transition, in percent
ReservePct == 25

\* the share left for the new regime's weights on a risk-off transition, in percent
EquityPct == 75

\* position shares at or below 1/ShareEpsilonInv are negligible (0.001)
ShareEpsilonInv == 1000

ShareEpsilon == Rat(1, ShareEpsilonInv)

\* RiskProfile.allocations: regime -> (ticker, weight) items in dict order.
\* Every regime configured, every instrument priced, weights summing to 1.
FullProfile ==
    [id |-> "full",
     allocations |->
        [r \in Regimes |->
            CASE r = "GOLDILOCKS" -> <<<<"GLD", Rat(1, 2)>>, <<"TLT", Rat(1, 2)>>>>
              [] r = "REFLATION" -> <<<<"GLD", Rat(3, 4)>>, <<"TLT", Rat(1, 4)>>>>
              [] r = "INFLATION" -> <<<<"TLT", Rat(1, 2)>>, <<"GLD", Rat(1, 2)>>>>
              [] r = "DEFLATION" -> <<<<"TLT", Rat(3, 4)>>, <<"GLD", Rat(1, 4)>>>>]]

\* A profile with a crypto instrument, no INFLATION entry and weights
\* that sum to less than 1 in DEFLATION.
PartialProfile ==
    [id |-> "partial",
     allocations |->
        [r \in Regimes \ {"INFLATION"} |->
            CASE r = "GOLDILOCKS" -> <<<<"GLD", Rat(1, 1)>>>>
              [] r = "REFLATION" -> <<<<"GLD", Rat(1, 2)>>, <<"Bitcoin", Rat(1, 2)>>>>
              [] r = "DEFLATION" -> <<<<"TLT", Rat(1, 2)>>, <<"GLD", Rat(1, 4)>>>>]]

\* AllocationItems that gives an unconfigured regime REFLATION's allocation
AllocationItems_DefaultsToReflation(profile, regime) ==
    IF regime \in DOMAIN profile.allocations
    THEN profile.allocations[regime]
    ELSE profile.allocations["REFLATION"]

\* self.risk_profile.allocations.get(regime, {}) as a list of items
AllocationItems(profile, regime) ==
    IF regime \in DOMAIN profile.allocations
    THEN profile.allocations[regime]
    ELSE <<>>

\* the sum of one regime's weights
RECURSIVE SumWeights(_)
SumWeights(items) ==
    IF items = <<>> THEN Zero ELSE RAdd(items[1][2], SumWeights(Tail(items)))

\* BacktestConfig: default benchmark of the model's configurations
BenchmarkTicker == "GLD"

\* every (ticker, weight) item of the profile, over all its regimes
AllItems(profile) ==
    UNION {{profile.allocations[r][i] : i \in 1..Len(profile.allocations[r])} :
              r \in DOMAIN profile.allocations}

\* _get_required_tickers: the profile's tickers and SHV, without crypto
RequiredTickers(profile) ==
    ({it[1] : it \in AllItems(profile)} \cup {ReserveTicker}) \ Crypto

\* the columns of the price cache: the required tickers and the benchmark
CacheColumns(profile) == RequiredTickers(profile) \cup {BenchmarkTicker}

\* One row of the synthetic price cache: a positive price for every cached
\* column (generate_synthetic_prices floors prices at 0.01), None elsewhere.
PriceRows(profile) ==
    {pr \in [Tickers -> {R(i) : i \in 1..MaxPrice} \cup {Absent}] :
        \A t \in Tickers : (pr[t] = Absent) <=> (t \notin CacheColumns(profile))}

\* PriceDataProvider.get_price on the row of the current date
GetPrice(pr, ticker) == IF ticker \in DOMAIN pr THEN pr[ticker] ELSE Absent

(***************************************************************************)
(* The portfolio ledger.                                                   *)
(***************************************************************************)
Position(ticker, shares, avg_cost, current_price) ==
    [ticker |-> ticker, shares |-> shares, avg_cost |-> avg_cost,
     current_price |-> current_price]

MarketValue(p) == RMul(p.shares, p.current_price)

\* the index of ticker in the positions dict, 0 when it has no position
PosIndex(ps, ticker) ==
    IF \E i \in 1..Len(ps) : ps[i].ticker = ticker
    THEN CHOOSE i \in 1..Len(ps) : ps[i].ticker = ticker
    ELSE 0

\* list(self.positions): the tickers in dict order
PosTickers(ps) == [i \in 1..Len(ps) |-> ps[i].ticker]

\* the refresh of position.current_price from the day's prices
RefreshPrices(ps, pr) ==
    [i \in 1..Len(ps) |->
        IF Truthy(GetPrice(pr, ps[i].ticker))
        THEN [ps[i] EXCEPT !.current_price = GetPrice(pr, ps[i].ticker)]
        ELSE ps[i]]

RECURSIVE SumMarketValue(_)
SumMarketValue(ps) ==
    IF ps = <<>> THEN Zero ELSE RAdd(MarketValue(ps[1]), SumMarketValue(Tail(ps)))

\* the positions ps at the prices pr, whatever price they last stored
RECURSIVE ValueAtPrices(_, _)
ValueAtPrices(ps, pr) ==
    IF ps = <<>>
    THEN Zero
    ELSE RAdd(RMul(ps[1].shares, pr[ps[1].ticker]), ValueAtPrices(Tail(ps), pr))

\* cash + reserve value + positions at the prices pr
TotalValueOf(c, shv, ps, pr) ==
    RAdd(RAdd(c, RMul(shv, pr[ReserveTicker])), ValueAtPrices(ps, pr))

\* the positions _calculate_portfolio_value counts: those with a price today
PricedPositions(ps, pr) ==
    SelectSeq(RefreshPrices(ps, pr), LAMBDA p : Truthy(GetPrice(pr, p.ticker)))

ShvValue(shv, pr) ==
    RMul(shv, OrElse(GetPrice(pr, ReserveTicker), R(ShvFallbackPrice)))

CalculatePortfolioValue(c, shv, ps, pr) ==
    RAdd(RAdd(c, IF RGt(shv, Zero) THEN ShvValue(shv, pr) ELSE Zero),
         SumMarketValue(PricedPositions(ps, pr)))

Trade(date, action, ticker, shares, price, value, regime, reason) ==
    [date |-> date, action |-> action, ticker |-> ticker, shares |-> shares,
     price |-> price, value |-> value, regime |-> regime, reason |-> reason]

\* ExecuteTrade with a buy that does not take its value out of the cash
ExecuteTrade_BuyKeepsCash(L, regime, date, action, ticker, shares, price, reason) ==
    LET value == RMul(shares, price)
        trade == Trade(date, action, ticker, RAbs(shares), price, RAbs(value),
                       regime, reason)
        i == PosIndex(L.positions, ticker)
    IN  IF action = "BUY"
        THEN LET old_pos == L.positions[i]
                 total_shares == RAdd(old_pos.shares, shares)
                 total_cost == RAdd(RMul(old_pos.shares, old_pos.avg_cost),
                                    RMul(shares, price))
                 avg_cost == IF RGt(total_shares, Zero)
                             THEN RDiv(total_cost, total_shares)
                             ELSE price
             IN  [cash |-> L.cash,
                  positions |->
                     IF i # 0
                     THEN [L.positions EXCEPT
                              ![i] = Position(ticker, total_shares, avg_cost, price)]
                     ELSE Append(L.positions, Position(ticker, shares, price, price)),
                  trades |-> Append(L.trades, trade)]
        ELSE LET left == RSub(L.positions[i].shares, shares)
             IN  [cash |-> RAdd(L.cash, value),
                  positions |->
                     IF i = 0
                     THEN L.positions
                     ELSE IF RLe(left, ShareEpsilon)
                          THEN SelectSeq(L.positions, LAMBDA p : p.ticker # ticker)
                          ELSE [L.positions EXCEPT ![i].shares = left],
                  trades |-> Append(L.trades, trade)]

\* ExecuteTrade with a buy that takes the last price as the average cost
ExecuteTrade_AvgIsLastPrice(L, regime, date, action, ticker, shares, price, reason) ==
    LET value == RMul(shares, price)
        trade == Trade(date, action, ticker, RAbs(shares), price, RAbs(value),
                       regime, reason)
        i == PosIndex(L.positions, ticker)
    IN  IF action = "BUY"
        THEN LET old_pos == L.positions[i]
                 total_shares == RAdd(old_pos.shares, shares)
             IN  [cash |-> RSub(L.cash, value),
                  positions |->
                     IF i # 0
                     THEN [L.positions EXCEPT
                              ![i] = Position(ticker, total_shares, price, price)]
                     ELSE Append(L.positions, Position(ticker, shares, price, price)),
                  trades |-> Append(L.trades, trade)]
        ELSE LET left == RSub(L.positions[i].shares, shares)
             IN  [cash |-> RAdd(L.cash, value),
                  positions |->
                     IF i = 0
                     THEN L.positions
                     ELSE IF RLe(left, ShareEpsilon)
                          THEN SelectSeq(L.positions, LAMBDA p : p.ticker # ticker)
                          ELSE [L.positions EXCEPT ![i].shares = left],
                  trades |-> Append(L.trades, trade)]

\* ExecuteTrade that logs the buys only
ExecuteTrade_SellsUnlogged(L, regime, date, action, ticker, shares, price, reason) ==
    LET value == RMul(shares, price)
        trade == Trade(date, action, ticker, RAbs(shares), price, RAbs(value),
                       regime, reason)
        i == PosIndex(L.positions, ticker)
    IN  IF action = "BUY"
        THEN LET old_pos == L.positions[i]
                 total_shares == RAdd(old_pos.shares, shares)
                 total_cost == RAdd(RMul(old_pos.shares, old_pos.avg_cost),
                                    RMul(shares, price))
                 avg_cost == IF RGt(total_shares, Zero)
                             THEN RDiv(total_cost, total_shares)
                             ELSE price
             IN  [cash |-> RSub(L.cash, value),
                  positions |->
                     IF i # 0
                     THEN [L.positions EXCEPT
                              ![i] = Position(ticker, total_shares, avg_cost, price)]
                     ELSE Append(L.positions, Position(ticker, shares, price, price)),
                  trades |-> Append(L.trades, trade)]
        ELSE LET left == RSub(L.positions[i].shares, shares)
             IN  [cash |-> RAdd(L.cash, value),
                  positions |->
                     IF i = 0
                     THEN L.positions
                     ELSE IF RLe(left, ShareEpsilon)
                          THEN SelectSeq(L.positions, LAMBDA p : p.ticker # ticker)
                          ELSE [L.positions EXCEPT ![i].shares = left],
                  trades |-> L.trades]

\* ExecuteTrade that keeps a position sold down to the threshold or below
ExecuteTrade_KeepsSold(L, regime, date, action, ticker, shares, price, reason) ==
    LET value == RMul(shares, price)
        trade == Trade(date, action, ticker, RAbs(shares), price, RAbs(value),
                       regime, reason)
        i == PosIndex(L.positions, ticker)
    IN  IF action = "BUY"
        THEN LET old_pos == L.positions[i]
                 total_shares == RAdd(old_pos.shares, shares)
                 total_cost == RAdd(RMul(old_pos.shares, old_pos.avg_cost),
                                    RMul(shares, price))
                 avg_cost == IF RGt(total_shares, Zero)
                             THEN RDiv(total_cost, total_shares)
                             ELSE price
             IN  [cash |-> RSub(L.cash, value),
                  positions |->
                     IF i # 0
                     THEN [L.positions EXCEPT
                              ![i] = Position(ticker, total_shares, avg_cost, price)]
                     ELSE Append(L.positions, Position(ticker, shares, price, price)),
                  trades |-> Append(L.trades, trade)]
        ELSE LET left == RSub(L.positions[i].shares, shares)
             IN  [cash |-> RAdd(L.cash, value),
                  positions |->
                     IF i = 0
                     THEN L.positions
                     ELSE [L.positions EXCEPT ![i].shares = left],
                  trades |-> Append(L.trades, trade)]

\* The ledger a trade acts on: L.cash, L.positions, L.trades.
ExecuteTrade(L, regime, date, action, ticker, shares, price, reason) ==
    LET value == RMul(shares, price)
        trade == Trade(date, action, ticker, RAbs(shares), price, RAbs(value),
                       regime, reason)
        i == PosIndex(L.positions, ticker)
    IN  IF action = "BUY"
        THEN LET old_pos == L.positions[i]
                 total_shares == RAdd(old_pos.shares, shares)
                 total_cost == RAdd(RMul(old_pos.shares, old_pos.avg_cost),
                                    RMul(shares, price))
                 avg_cost == IF RGt(total_shares, Zero)
                             THEN RDiv(total_cost, total_shares)
                             ELSE price
             IN  [cash |-> RSub(L.cash, value),
                  positions |->
                     IF i # 0
                     THEN [L.positions EXCEPT
                              ![i] = Position(ticker, total_shares, avg_cost, price)]
                     ELSE Append(L.positions, Position(ticker, shares, price, price)),
                  trades |-> Append(L.trades, trade)]
        ELSE LET left == RSub(L.positions[i].shares, shares)
             IN  [cash |-> RAdd(L.cash, value),
                  positions |->
                     IF i = 0
                     THEN L.positions
                     ELSE IF RLe(left, ShareEpsilon)
                          THEN SelectSeq(L.positions, LAMBDA p : p.ticker # ticker)
                          ELSE [L.positions EXCEPT ![i].shares = left],
                  trades |-> Append(L.trades, trade)]

(***************************************************************************)
(* The signal feed: one GridDataRow per date.                              *)
(***************************************************************************)
GridDataRow(s, g, r, i, d, vams) ==
    [sum_confirming_markets |-> s, goldilocks_confirming |-> g,
     reflation_confirming |-> r, inflation_confirming |-> i,
     deflation_confirming |-> d, vams |-> vams]

\* row.vams.get(ticker, default)
VamsGet(vams, ticker, default) ==
    IF ticker \in DOMAIN vams THEN vams[ticker] ELSE default

\* the vams dicts of the model: no XLK entry, or XLK at -2 or 0
VamsSet == {<<>>} \cup {[t \in {"XLK"} |-> v] : v \in {-2, 0}}

\* the confirming count a leading regime has in the rows of a run
RunCount == 3

\* the rows the signal feed offers a run
RunRows ==
    {GridDataRow(s, g, r, i, d, v) :
        s \in {SumThreshold, SumThreshold + 1},
        g \in {0, RunCount}, r \in {0, RunCount},
        i \in {0, RunCount}, d \in {0, RunCount}, v \in VamsSet}

\* the loop variable row outside the loop body
NoRow == GridDataRow(0, 0, 0, 0, 0, <<>>)

\* A date of the feed whose row is not fixed in advance: the row is drawn
\* from the rows of a run when the main loop reads it.
AnyRow == GridDataRow(-1, 0, 0, 0, 0, <<>>)

\* one input record of the constructor: a row and its date
Record(d, rw) == [date |-> d, row |-> rw]

\* {row.date: row for row in grid_data}: of the records of one date the
\* last one is kept
GridData(records) ==
    [d \in {records[i].date : i \in 1..Len(records)} |->
        LET last == CHOOSE i \in 1..Len(records) :
                        /\ records[i].date = d
                        /\ \A j \in (i + 1)..Len(records) : records[j].date # d
        IN  records[last].row]

\* sorted(S), for a set of dates
RECURSIVE SortedSeq(_)
SortedSeq(S) ==
    IF S = {}
    THEN <<>>
    ELSE LET m == CHOOSE x \in S : \A y \in S : x <= y
         IN  <<m>> \o SortedSeq(S \ {m})

\* self.dates
Dates(g) == SortedSeq(DOMAIN g)

\* BacktestDates that takes every date up to the end of the window
BacktestDates_IgnoresStart(g, cfg) ==
    SelectSeq(Dates(g), LAMBDA d : d <= cfg.end_date)

\* BacktestDates with the end of the window left out
BacktestDates_ExclusiveEnd(g, cfg) ==
    SelectSeq(Dates(g), LAMBDA d : cfg.start_date <= d /\ d < cfg.end_date)

\* the dates of the feed inside the backtest window, bounds included
BacktestDates(g, cfg) ==
    SelectSeq(Dates(g), LAMBDA d : cfg.start_date <= d /\ d <= cfg.end_date)

\* the records of MaxDays dates whose rows are drawn as the run reads them,
\* and the feed the constructor makes of them
OpenRecords == [d \in 1..MaxDays |-> Record(d, AnyRow)]

OpenFeed == GridData(OpenRecords)

\* the rows self.grid_data can hold for the date d
RowsOn(g, d) == IF g[d] = AnyRow THEN RunRows ELSE {g[d]}

\* CheckXlkVamsExit with the signal test at > 0 instead of >= 0
CheckXlkVamsExit_Strict(row, shv) ==
    VamsGet(row.vams, "XLK", XlkDefault) > 0 /\ RGt(shv, Zero)

\* _check_xlk_vams_exit
CheckXlkVamsExit(row, shv) ==
    VamsGet(row.vams, "XLK", XlkDefault) >= 0 /\ RGt(shv, Zero)

(***************************************************************************)
(* The state of one BacktestEngine and of its run.                         *)
(***************************************************************************)
VARIABLES
    pc,                 \* the position of run() in its code
    records,            \* the list grid_data given to the constructor
    grid_data,          \* self.grid_data: date -> row
    risk_profile,       \* self.risk_profile
    config,             \* the BacktestConfig given to run
    price,              \* the row of the price cache for the current date
    day,                \* the index of the current date in backtest_dates
    row,                \* the loop variable row
    current_regime,     \* self.current_regime
    positions,          \* self.positions, in dict order
    cash,               \* self.cash
    shv_position,       \* self.shv_position
    trades,             \* self.trades
    equity_curve,       \* self.equity_curve
    new_regime,         \* the local new_regime of run
    portfolio_value,    \* the local portfolio_value of run and its handlers
    initial_benchmark_price,
    regime_periods,     \* the local regime_periods of run
    current_regime_start,
    todo,               \* what the loop in progress has still to visit
    capital,            \* the argument capital of _allocate_to_regime
    reason,             \* the argument reason of the trades in progress
    ret,                \* where run continues after _allocate_to_regime
    returned_cash,      \* the local returned_cash of the exit rule
    total_equity,       \* the local total_equity of the exit rule
    results,            \* the BacktestResults that run returns
    drawdowns,          \* the local drawdowns of _find_top_drawdowns before its sort
    before,             \* history: the ledger when the day's branch was taken
    first_run,          \* history: what the previous run() of this engine returned
    rng,                \* the state of numpy's global generator: the draws taken from it
    price_cache,        \* self.price_provider.price_cache
    lookup              \* a call get_price(ticker, date) and what it returned

vars == <<pc, risk_profile, config, price, day, row, current_regime, positions,
          cash, shv_position, trades, equity_curve, new_regime, portfolio_value,
          initial_benchmark_price, regime_periods, current_regime_start, todo,
          capital, reason, ret, returned_cash, total_equity, before,
          records, grid_data, results, drawdowns, first_run, rng, price_cache,
          lookup>>

ledgerVars == <<positions, cash, trades>>

inputVars == <<records, grid_data, risk_profile, config>>

reportVars == <<results, drawdowns, first_run>>

serviceVars == <<rng, price_cache, lookup>>

periodVars == <<regime_periods, current_regime_start>>

exitVars == <<returned_cash, total_equity>>

Ledger == [cash |-> cash, positions |-> positions, trades |-> trades]

\* the ledger after the step is the ledger L
SetLedger(L) ==
    /\ cash' = L.cash
    /\ positions' = L.positions
    /\ trades' = L.trades

NoBefore ==
    [cash |-> Zero, shv_position |-> Zero, value |-> Zero, positions |-> <<>>,
     trades |-> 0]

\* self.price_cache = None
NoCache == [fetched |-> FALSE]

\* the cache generate_synthetic_prices builds when the global generator is in
\* the state g: every np.random.normal draw of its loops is taken from there
Synthetic(g) == [fetched |-> TRUE, generated_from |-> g]

\* the state of the global generator when the process starts
InitialRng == 0

\* no call of get_price on its own
NoLookup == [ticker |-> "", date |-> 0, result |-> Absent]

\* an engine without price service
NoService == price_cache = NoCache /\ lookup = NoLookup

\* no report: run has not returned
NoResults == [total_trades |-> -1]

\* no earlier run of this engine
NoRun == [runs |-> 0]

\* the list the main loop goes through
backtest_dates == BacktestDates(grid_data, config)

\* the loop variable date
today == backtest_dates[day]

\* backtest_dates[0] and backtest_dates[-1]
first_date == backtest_dates[1]

last_date == backtest_dates[Len(backtest_dates)]

\* the window [first, last] as the dates of a configuration
Window(first, last) == [start_date |-> first, end_date |-> last]

\* BacktestEngine.__init__ and the BacktestConfig given to run, for a
\* profile, a starting capital, a list of records and a window of dates
InitWith(profiles, startingValues, recordLists, windows) ==
    /\ pc = "start"
    /\ records \in recordLists
    /\ grid_data = GridData(records)
    /\ risk_profile \in profiles
    /\ config \in {[starting_value |-> v, benchmark_ticker |-> BenchmarkTicker,
                     start_date |-> w.start_date, end_date |-> w.end_date] :
                        v \in startingValues, w \in windows}
    /\ results = NoResults
    /\ drawdowns = <<>>
    /\ first_run = NoRun
    /\ rng = InitialRng
    /\ price_cache = NoCache
    /\ lookup = NoLookup
    /\ price = [t \in Tickers |-> Absent]
    /\ day = 0
    /\ row = NoRow
    /\ current_regime = "REFLATION"
    /\ positions = <<>>
    /\ cash = Zero
    /\ shv_position = Zero
    /\ trades = <<>>
    /\ equity_curve = <<>>
    /\ new_regime = NoRegime
    /\ portfolio_value = Zero
    /\ initial_benchmark_price = Zero
    /\ regime_periods = <<>>
    /\ current_regime_start = 0
    /\ todo = <<>>
    /\ capital = Zero
    /\ reason = <<>>
    /\ ret = "loop"
    /\ returned_cash = Zero
    /\ total_equity = Zero
    /\ before = NoBefore

\* the starting capital of the model's runs
StartingValue == 100000

Init == InitWith({FullProfile}, {R(StartingValue)}, {OpenRecords}, {Window(1, MaxDays)})

\* the loop over items, or what follows it when there is nothing to visit
AfterLoop(items, loopPc, nextPc) == IF items = <<>> THEN nextPc ELSE loopPc

\* run, from the price provider's setup to the call of the initial
\* allocation, or to the error raised for an empty list of dates
Start ==
    /\ pc = "start"
    /\ cash' = config.starting_value
    /\ current_regime' = "REFLATION"
    /\ positions' = <<>>
    /\ shv_position' = Zero
    /\ trades' = <<>>
    /\ equity_curve' = <<>>
    /\ IF backtest_dates = <<>>
       THEN /\ pc' = "error"
            /\ UNCHANGED <<price, initial_benchmark_price, periodVars, todo,
                           capital, reason, ret>>
       ELSE /\ \E pr \in PriceRows(risk_profile) :
                  /\ price' = pr
                  /\ initial_benchmark_price' =
                        OrElse(GetPrice(pr, config.benchmark_ticker),
                               R(BenchmarkFallbackPrice))
            /\ regime_periods' = <<>>
            /\ current_regime_start' = first_date
            /\ todo' = AllocationItems(risk_profile, "REFLATION")
            /\ capital' = config.starting_value
            /\ reason' = <<"Initial allocation to", "REFLATION">>
            /\ ret' = "loop"
            /\ pc' = AfterLoop(todo', "allocate", "loop")
    /\ price_cache' = Synthetic(rng)
    /\ rng' = rng + 1
    /\ UNCHANGED <<inputVars, lookup, reportVars, day, row, new_regime, portfolio_value,
                   exitVars, before>>

\* AllocateOne that buys an instrument without price at the fallback price
AllocateOne_AtFallbackPrice(L, regime, date, item, cap, why, pr) ==
    LET ticker == item[1]
        weight == item[2]
        target_value == RMul(cap, weight)
        p == OrElse(GetPrice(pr, ticker), R(BenchmarkFallbackPrice))
    IN  IF ticker \in Crypto
        THEN L
        ELSE IF Truthy(p) /\ RGt(p, Zero) /\ RGt(RDiv(target_value, p), ShareEpsilon)
             THEN ExecuteTrade(L, regime, date, "BUY", ticker,
                               RDiv(target_value, p), p, why)
             ELSE L

\* AllocateOne that takes the weight of the cash still unspent
AllocateOne_OfRemainingCash(L, regime, date, item, cap, why, pr) ==
    LET ticker == item[1]
        weight == item[2]
        target_value == RMul(L.cash, weight)
        p == GetPrice(pr, ticker)
    IN  IF ticker \in Crypto
        THEN L
        ELSE IF Truthy(p) /\ RGt(p, Zero) /\ RGt(RDiv(target_value, p), ShareEpsilon)
             THEN ExecuteTrade(L, regime, date, "BUY", ticker,
                               RDiv(target_value, p), p, why)
             ELSE L

\* AllocateOne that does not leave out Bitcoin and Ethereum, and buys an
\* instrument without quote at the benchmark's fallback price
AllocateOne_BuysCrypto(L, regime, date, item, cap, why, pr) ==
    LET ticker == item[1]
        weight == item[2]
        target_value == RMul(cap, weight)
        p == OrElse(GetPrice(pr, ticker), R(BenchmarkFallbackPrice))
    IN  IF RGt(RDiv(target_value, p), ShareEpsilon)
        THEN ExecuteTrade(L, regime, date, "BUY", ticker, RDiv(target_value, p), p, why)
        ELSE L

\* one iteration of the loop of _allocate_to_regime
AllocateOne(L, regime, date, item, cap, why, pr) ==
    LET ticker == item[1]
        weight == item[2]
        target_value == RMul(cap, weight)
        p == GetPrice(pr, ticker)
    IN  IF ticker \in Crypto
        THEN L
        ELSE IF Truthy(p) /\ RGt(p, Zero) /\ RGt(RDiv(target_value, p), ShareEpsilon)
             THEN ExecuteTrade(L, regime, date, "BUY", ticker,
                               RDiv(target_value, p), p, why)
             ELSE L

Allocate ==
    /\ pc = "allocate"
    /\ SetLedger(AllocateOne(Ledger, current_regime,
                             IF day = 0 THEN first_date ELSE today,
                             Head(todo), capital, reason, price))
    /\ todo' = Tail(todo)
    /\ pc' = AfterLoop(todo', "allocate", ret)
    /\ UNCHANGED <<inputVars, serviceVars, reportVars, price, day, row, current_regime, shv_position,
                   equity_curve, new_regime, portfolio_value, initial_benchmark_price,
                   periodVars, capital, reason, ret, exitVars, before>>

\* the head of the main loop: the next date and its row
NextDay ==
    /\ pc = "loop"
    /\ day < Len(backtest_dates)
    /\ day' = day + 1
    /\ row' \in RowsOn(grid_data, backtest_dates[day + 1])
    /\ pc' = "check"
    /\ UNCHANGED <<inputVars, serviceVars, reportVars, price, current_regime, ledgerVars, shv_position,
                   equity_curve, new_regime, portfolio_value, initial_benchmark_price,
                   periodVars, todo, capital, reason, ret, exitVars, before>>

\* the price refresh, _check_regime_change and the choice of the day's branch
CheckDay ==
    /\ pc = "check"
    /\ \E pr \in (IF day = 1 THEN {price} ELSE PriceRows(risk_profile)) :
          LET ps == RefreshPrices(positions, pr)
              nr == CheckRegimeChange(row, current_regime)
              value == CalculatePortfolioValue(cash, shv_position, ps, pr)
          IN  /\ price' = pr
              /\ positions' = ps
              /\ new_regime' = nr
              /\ before' = [cash |-> cash, shv_position |-> shv_position,
                            value |-> TotalValueOf(cash, shv_position, ps, pr),
                            positions |-> ps, trades |-> Len(trades)]
              /\ IF nr # NoRegime
                 THEN /\ regime_periods' =
                            Append(regime_periods,
                                   [regime |-> current_regime,
                                    start |-> current_regime_start, end |-> today])
                      /\ current_regime_start' = today
                      /\ portfolio_value' = value
                      /\ todo' = PosTickers(ps)
                      /\ reason' = <<"Regime change to", nr>>
                      /\ pc' = AfterLoop(todo', "liquidate", "liquidate_shv")
                 ELSE /\ pc' = IF current_regime = "DEFLATION"
                                  /\ CheckXlkVamsExit(row, shv_position)
                               THEN "exit_rule"
                               ELSE "record"
                      /\ UNCHANGED <<periodVars, portfolio_value, todo, reason>>
    /\ row' = NoRow
    /\ UNCHANGED <<inputVars, serviceVars, reportVars, day, current_regime, cash, trades, shv_position,
                   equity_curve, initial_benchmark_price, capital, ret, exitVars>>

\* LiquidateOne selling at the position's average cost, not the day's price
LiquidateOne_AtAvgCost(L, regime, date, ticker, why, pr) ==
    LET position == L.positions[PosIndex(L.positions, ticker)]
    IN  ExecuteTrade(L, regime, date, "SELL", ticker, position.shares,
                     position.avg_cost, why)

\* LiquidateOne selling half of the position's shares
LiquidateOne_SellsHalf(L, regime, date, ticker, why, pr) ==
    LET position == L.positions[PosIndex(L.positions, ticker)]
        p == OrElse(GetPrice(pr, ticker), position.current_price)
    IN  ExecuteTrade(L, regime, date, "SELL", ticker,
                     RMul(position.shares, Rat(1, 2)), p, why)

\* one iteration of the loop of _liquidate_all
LiquidateOne(L, regime, date, ticker, why, pr) ==
    LET position == L.positions[PosIndex(L.positions, ticker)]
        p == OrElse(GetPrice(pr, ticker), position.current_price)
    IN  ExecuteTrade(L, regime, date, "SELL", ticker, position.shares, p, why)

Liquidate ==
    /\ pc = "liquidate"
    /\ SetLedger(LiquidateOne(Ledger, current_regime, today, Head(todo), reason, price))
    /\ todo' = Tail(todo)
    /\ pc' = AfterLoop(todo', "liquidate", "liquidate_shv")
    /\ UNCHANGED <<inputVars, serviceVars, reportVars, price, day, row, current_regime, shv_position,
                   equity_curve, new_regime, portfolio_value, initial_benchmark_price,
                   periodVars, capital, reason, ret, exitVars, before>>

\* LiquidateShv that credits the cash and keeps the reserve holding
LiquidateShv_KeepsReserve ==
    /\ pc = "liquidate_shv"
    /\ IF RGt(shv_position, Zero)
       THEN cash' = RAdd(cash, ShvValue(shv_position, price))
       ELSE UNCHANGED cash
    /\ pc' = "reallocate"
    /\ UNCHANGED <<inputVars, serviceVars, reportVars, price, day, row, current_regime, positions, trades,
                   equity_curve, new_regime, portfolio_value, initial_benchmark_price,
                   periodVars, todo, capital, reason, ret, exitVars, before,
                   shv_position>>

\* the end of _liquidate_all: the reserve holding goes back to cash
LiquidateShv ==
    /\ pc = "liquidate_shv"
    /\ IF RGt(shv_position, Zero)
       THEN /\ cash' = RAdd(cash, ShvValue(shv_position, price))
            /\ shv_position' = Zero
       ELSE UNCHANGED <<cash, shv_position>>
    /\ pc' = "reallocate"
    /\ UNCHANGED <<inputVars, serviceVars, reportVars, price, day, row, current_regime, positions, trades,
                   equity_curve, new_regime, portfolio_value, initial_benchmark_price,
                   periodVars, todo, capital, reason, ret, exitVars, before>>

\* Reallocate that moves 25% to the reserve and leaves the cash as liquidated
Reallocate_KeepsCash ==
    /\ pc = "reallocate"
    /\ IF IsRiskOn(current_regime) /\ ~IsRiskOn(new_regime)
       THEN LET cash_reserve == RMul(portfolio_value, Rat(ReservePct, 100))
                shv_price == OrElse(GetPrice(price, ReserveTicker), R(ShvFallbackPrice))
                equity_capital == RMul(portfolio_value, Rat(EquityPct, 100))
            IN  /\ shv_position' = RDiv(cash_reserve, shv_price)
                /\ cash' = cash
                /\ capital' = equity_capital
       ELSE /\ capital' = cash
            /\ UNCHANGED <<cash, shv_position>>
    /\ reason' = <<"Allocated to", new_regime>>
    /\ todo' = AllocationItems(risk_profile, new_regime)
    /\ ret' = "set_regime"
    /\ pc' = AfterLoop(todo', "allocate", "set_regime")
    /\ UNCHANGED <<inputVars, serviceVars, reportVars, price, day, row, current_regime, positions, trades,
                   equity_curve, new_regime, portfolio_value, initial_benchmark_price,
                   periodVars, exitVars, before>>

\* what the three transition branches do between _liquidate_all and the
\* loop of _allocate_to_regime
Reallocate ==
    /\ pc = "reallocate"
    /\ IF IsRiskOn(current_regime) /\ ~IsRiskOn(new_regime)
       THEN LET cash_reserve == RMul(portfolio_value, Rat(ReservePct, 100))
                shv_price == OrElse(GetPrice(price, ReserveTicker), R(ShvFallbackPrice))
                equity_capital == RMul(portfolio_value, Rat(EquityPct, 100))
            IN  /\ shv_position' = RDiv(cash_reserve, shv_price)
                /\ cash' = equity_capital
                /\ capital' = equity_capital
       ELSE /\ capital' = cash
            /\ UNCHANGED <<cash, shv_position>>
    /\ reason' = <<"Allocated to", new_regime>>
    /\ todo' = AllocationItems(risk_profile, new_regime)
    /\ ret' = "set_regime"
    /\ pc' = AfterLoop(todo', "allocate", "set_regime")
    /\ UNCHANGED <<inputVars, serviceVars, reportVars, price, day, row, current_regime, positions, trades,
                   equity_curve, new_regime, portfolio_value, initial_benchmark_price,
                   periodVars, exitVars, before>>

\* SetRegime that leaves the current regime as it is
SetRegime_KeepsRegime ==
    /\ pc = "set_regime"
    /\ pc' = "record"
    /\ UNCHANGED <<inputVars, serviceVars, reportVars, price, day, row, current_regime, ledgerVars,
                   shv_position, equity_curve, new_regime, portfolio_value,
                   initial_benchmark_price, periodVars, todo, capital, reason, ret,
                   exitVars, before>>

\* self.current_regime = new_regime
SetRegime ==
    /\ pc = "set_regime"
    /\ current_regime' = new_regime
    /\ pc' = "record"
    /\ UNCHANGED <<inputVars, serviceVars, reportVars, price, day, row, ledgerVars, shv_position,
                   equity_curve, new_regime, portfolio_value, initial_benchmark_price,
                   periodVars, todo, capital, reason, ret, exitVars, before>>

\* the exit rule up to its loop over the positions
ExitRule ==
    /\ pc = "exit_rule"
    /\ IF RGt(shv_position, Zero)
       THEN /\ returned_cash' = ShvValue(shv_position, price)
            /\ shv_position' = Zero
            /\ total_equity' = SumMarketValue(positions)
            /\ todo' = IF RGt(total_equity', Zero) THEN PosTickers(positions) ELSE <<>>
       ELSE /\ todo' = <<>>
            /\ UNCHANGED <<returned_cash, shv_position, total_equity>>
    /\ reason' = <<"XLK VAMS improved - reinvesting cash">>
    /\ pc' = AfterLoop(todo', "reinvest", "record")
    /\ UNCHANGED <<inputVars, serviceVars, reportVars, price, day, row, current_regime, ledgerVars,
                   equity_curve, new_regime, portfolio_value, initial_benchmark_price,
                   periodVars, capital, ret, before>>

\* one iteration of the exit rule's loop over the positions
ReinvestOne(L, regime, date, ticker, returned, equity, why, pr) ==
    LET position == L.positions[PosIndex(L.positions, ticker)]
        weight == RDiv(MarketValue(position), equity)
        additional == RMul(returned, weight)
        p == GetPrice(pr, ticker)
    IN  IF Truthy(p)
        THEN ExecuteTrade(L, regime, date, "BUY", ticker, RDiv(additional, p), p, why)
        ELSE L

Reinvest ==
    /\ pc = "reinvest"
    /\ SetLedger(ReinvestOne(Ledger, current_regime, today, Head(todo), returned_cash,
                             total_equity, reason, price))
    /\ todo' = Tail(todo)
    /\ pc' = AfterLoop(todo', "reinvest", "record")
    /\ UNCHANGED <<inputVars, serviceVars, reportVars, price, day, row, current_regime, shv_position,
                   equity_curve, new_regime, portfolio_value, initial_benchmark_price,
                   periodVars, capital, reason, ret, exitVars, before>>

EquityCurvePoint(date, value, benchmark_value, regime, cash_value) ==
    [date |-> date, portfolio_value |-> value, benchmark_value |-> benchmark_value,
     regime |-> regime, cash_value |-> cash_value]

\* RecordEquity that takes the day's benchmark price relative to the fallback
\* price, not to the first day's price
RecordEquity_RatioToFallback ==
    /\ pc = "record"
    /\ LET ps == RefreshPrices(positions, price)
           value == CalculatePortfolioValue(cash, shv_position, ps, price)
           shv_value == ShvValue(shv_position, price)
           benchmark_price == OrElse(GetPrice(price, config.benchmark_ticker),
                                     initial_benchmark_price)
           benchmark_value == RMul(config.starting_value,
                                   RDiv(benchmark_price, R(BenchmarkFallbackPrice)))
       IN  /\ positions' = ps
           /\ portfolio_value' = value
           /\ equity_curve' =
                 Append(equity_curve,
                        EquityCurvePoint(today, value, benchmark_value, current_regime,
                                         shv_value))
    /\ pc' = "loop"
    /\ UNCHANGED <<inputVars, serviceVars, reportVars, price, day, row, current_regime, cash, trades,
                   shv_position, new_regime, initial_benchmark_price, periodVars,
                   todo, capital, reason, ret, exitVars, before>>

\* the equity curve point that closes the day
RecordEquity ==
    /\ pc = "record"
    /\ LET ps == RefreshPrices(positions, price)
           value == CalculatePortfolioValue(cash, shv_position, ps, price)
           shv_value == ShvValue(shv_position, price)
           benchmark_price == OrElse(GetPrice(price, config.benchmark_ticker),
                                     initial_benchmark_price)
           benchmark_value == RMul(config.starting_value,
                                   RDiv(benchmark_price, initial_benchmark_price))
       IN  /\ positions' = ps
           /\ portfolio_value' = value
           /\ equity_curve' =
                 Append(equity_curve,
                        EquityCurvePoint(today, value, benchmark_value, current_regime,
                                         shv_value))
    /\ pc' = "loop"
    /\ UNCHANGED <<inputVars, serviceVars, reportVars, price, day, row, current_regime, cash, trades,
                   shv_position, new_regime, initial_benchmark_price, periodVars,
                   todo, capital, reason, ret, exitVars, before>>

\* the loop is exhausted: the final regime period
Finish ==
    /\ pc = "loop"
    /\ day = Len(backtest_dates)
    /\ regime_periods' =
          Append(regime_periods,
                 [regime |-> current_regime, start |-> current_regime_start,
                  end |-> last_date])
    /\ pc' = "done"
    /\ UNCHANGED <<inputVars, serviceVars, reportVars, price, day, row, current_regime, ledgerVars,
                   shv_position, equity_curve, new_regime, portfolio_value,
                   initial_benchmark_price, current_regime_start, todo, capital,
                   reason, ret, exitVars, before>>

(***************************************************************************)
(* The report: _calculate_results and _find_top_drawdowns.  The fields the *)
(* code computes with +, -, * and / are computed here; a field that needs  *)
(* a real power (the annualized returns, and alpha through them) is kept   *)
(* as the term the code evaluates.                                         *)
(***************************************************************************)
\* trading days per year
TradingDays == 252

\* risk_free_rate = 0.02, in percent
RiskFreePct == 2

\* the default n of _find_top_drawdowns
TopN == 5

\* None of an Optional date or number of days
NoValue == -1

\* float('nan'): a number without value
NaN == [n |-> 0, d |-> -1]

\* float('inf')
Infinity == [n |-> 1, d |-> 0]

PortfolioValues(curve) == [i \in 1..Len(curve) |-> curve[i].portfolio_value]

BenchmarkValues(curve) == [i \in 1..Len(curve) |-> curve[i].benchmark_value]

CurveDates(curve) == [i \in 1..Len(curve) |-> curve[i].date]

\* pd.Series(values).pct_change().dropna()
PctChange(values) ==
    [i \in 1..(Len(values) - 1) |->
        RDiv(RSub(values[i + 1], values[i]), values[i])]

RECURSIVE RSum(_)
RSum(xs) == IF xs = <<>> THEN Zero ELSE RAdd(xs[1], RSum(Tail(xs)))

Mean(xs) == RDiv(RSum(xs), R(Len(xs)))

\* the sample covariance of two series of the same length > 1
Cov(xs, ys) ==
    RDiv(RSum([i \in 1..Len(xs) |->
                  RMul(RSub(xs[i], Mean(xs)), RSub(ys[i], Mean(ys)))]),
         R(Len(xs) - 1))

Var(xs) == Cov(xs, xs)

Min(a, b) == IF a < b THEN a ELSE b

\* (1 + total_return) ** (1 / years) - 1, as a term
Annualized(total_return, days) ==
    [power_of |-> RAdd(R(1), total_return),
     exponent |-> RDiv(R(1), Rat(days, TradingDays))]

\* annualized_return - (risk_free_rate + beta * (benchmark_annualized -
\* risk_free_rate)), as a term
AlphaTerm(annualized_return, beta, benchmark_annualized) ==
    [annualized_return |-> annualized_return, risk_free_rate |-> Rat(RiskFreePct, 100),
     beta |-> beta, benchmark_annualized |-> benchmark_annualized]

\* BetaAlpha that computes beta and alpha from a single paired observation
BetaAlpha_OneObservation(daily_returns, benchmark_daily, annualized_return, benchmark_annualized) ==
    IF Len(daily_returns) > 0 /\ Len(benchmark_daily) > 0
    THEN LET min_len == Min(Len(daily_returns), Len(benchmark_daily))
             port == SubSeq(daily_returns, 1, min_len)
             bench == SubSeq(benchmark_daily, 1, min_len)
             beta == IF min_len > 1 /\ RGt(Var(bench), Zero)
                     THEN RDiv(Cov(port, bench), Var(bench))
                     ELSE R(1)
         IN  [beta |-> beta,
              alpha |-> AlphaTerm(annualized_return, beta, benchmark_annualized)]
    ELSE [beta |-> R(1), alpha |-> Zero]

\* the "Beta and Alpha" block of _calculate_results
BetaAlpha(daily_returns, benchmark_daily, annualized_return, benchmark_annualized) ==
    IF Len(daily_returns) > 0 /\ Len(benchmark_daily) > 0
    THEN LET min_len == Min(Len(daily_returns), Len(benchmark_daily))
             port == SubSeq(daily_returns, 1, min_len)
             bench == SubSeq(benchmark_daily, 1, min_len)
         IN  IF min_len > 1
             THEN LET beta == IF RGt(Var(bench), Zero)
                              THEN RDiv(Cov(port, bench), Var(bench))
                              ELSE R(1)
                  IN  [beta |-> beta,
                       alpha |-> AlphaTerm(annualized_return, beta,
                                           benchmark_annualized)]
             ELSE [beta |-> R(1), alpha |-> Zero]
    ELSE [beta |-> R(1), alpha |-> Zero]

\* the "Max drawdown" loop of _calculate_results from value i on
RECURSIVE MaxDrawdownFrom(_, _, _, _)
MaxDrawdownFrom(values, i, peak, max_dd) ==
    IF i > Len(values)
    THEN max_dd
    ELSE LET pk == IF RGt(values[i], peak) THEN values[i] ELSE peak
             dd == RDiv(RSub(pk, values[i]), pk)
         IN  MaxDrawdownFrom(values, i + 1, pk, IF RGt(dd, max_dd) THEN dd ELSE max_dd)

MaxDrawdown(values) == MaxDrawdownFrom(values, 1, values[1], Zero)

DrawdownEvent(drawdown_pct, start_date, low_date, end_date, length_days, recovery_days) ==
    [drawdown_pct |-> drawdown_pct, start_date |-> start_date,
     low_date |-> low_date, end_date |-> end_date, length_days |-> length_days,
     recovery_days |-> recovery_days]

\* the locals of _find_top_drawdowns before its loop; an index is the
\* position in values, counted from 1
ScanStart(values) ==
    [drawdowns |-> <<>>, peak |-> values[1], peak_idx |-> 1, in_drawdown |-> FALSE,
     dd_start_idx |-> 1, dd_low_idx |-> 1, dd_low |-> Infinity]

\* ScanStep that closes an event at any rise above its trough
ScanStep_ClosesOnRise(st, values, dates, i) ==
    LET val == values[i]
    IN  IF ~RLt(val, st.peak) \/ (st.in_drawdown /\ RGt(val, st.dd_low))
        THEN [st EXCEPT
                 !.drawdowns =
                     IF st.in_drawdown
                     THEN Append(@, DrawdownEvent(
                              RDiv(RSub(st.peak, st.dd_low), st.peak),
                              dates[st.dd_start_idx], dates[st.dd_low_idx],
                              dates[i], i - st.dd_start_idx, i - st.dd_low_idx))
                     ELSE @,
                 !.in_drawdown = FALSE,
                 !.peak = val,
                 !.peak_idx = i]
        ELSE IF ~st.in_drawdown
             THEN [st EXCEPT !.in_drawdown = TRUE, !.dd_start_idx = st.peak_idx,
                             !.dd_low = val, !.dd_low_idx = i]
             ELSE IF RLt(val, st.dd_low)
                  THEN [st EXCEPT !.dd_low = val, !.dd_low_idx = i]
                  ELSE st

\* one iteration of the loop of _find_top_drawdowns, on values[i]
ScanStep(st, values, dates, i) ==
    LET val == values[i]
    IN  IF ~RLt(val, st.peak)
        THEN [st EXCEPT
                 !.drawdowns =
                     IF st.in_drawdown
                     THEN Append(@, DrawdownEvent(
                              RDiv(RSub(st.peak, st.dd_low), st.peak),
                              dates[st.dd_start_idx], dates[st.dd_low_idx],
                              dates[i], i - st.dd_start_idx, i - st.dd_low_idx))
                     ELSE @,
                 !.in_drawdown = FALSE,
                 !.peak = val,
                 !.peak_idx = i]
        ELSE IF ~st.in_drawdown
             THEN [st EXCEPT !.in_drawdown = TRUE, !.dd_start_idx = st.peak_idx,
                             !.dd_low = val, !.dd_low_idx = i]
             ELSE IF RLt(val, st.dd_low)
                  THEN [st EXCEPT !.dd_low = val, !.dd_low_idx = i]
                  ELSE st

\* the loop of _find_top_drawdowns from values[i] on
RECURSIVE Scan(_, _, _, _)
Scan(st, values, dates, i) ==
    IF i > Len(values)
    THEN st
    ELSE Scan(ScanStep(st, values, dates, i), values, dates, i + 1)

\* ScanEnd that emits no event for a drawdown still open at the end
ScanEnd_DropsOpen(st, values, dates) == st.drawdowns

\* what follows the loop: the event still open at the end of the series
ScanEnd(st, values, dates) ==
    IF st.in_drawdown
    THEN Append(st.drawdowns,
                DrawdownEvent(RDiv(RSub(st.peak, st.dd_low), st.peak),
                              dates[st.dd_start_idx], dates[st.dd_low_idx],
                              NoValue, Len(values) - (st.dd_start_idx - 1), NoValue))
    ELSE st.drawdowns

\* every event of the series, in the order the events are found
FindDrawdowns(values, dates) ==
    ScanEnd(Scan(ScanStart(values), values, dates, 1), values, dates)

\* e put into a list sorted by descending drawdown_pct, behind its equals
InsertDesc(sorted, e) ==
    LET k == Cardinality({j \in 1..Len(sorted) :
                             ~RLt(sorted[j].drawdown_pct, e.drawdown_pct)})
    IN  SubSeq(sorted, 1, k) \o <<e>> \o SubSeq(sorted, k + 1, Len(sorted))

\* drawdowns.sort(key=lambda x: x.drawdown_pct, reverse=True): a stable sort
RECURSIVE SortDesc(_)
SortDesc(evs) ==
    IF evs = <<>>
    THEN <<>>
    ELSE InsertDesc(SortDesc(SubSeq(evs, 1, Len(evs) - 1)), evs[Len(evs)])

\* TopOf that keeps the first n events found, unsorted
TopOf_Unsorted(evs, n) == SubSeq(evs, 1, Min(n, Len(evs)))

\* the sort and drawdowns[:n]
TopOf(evs, n) == SubSeq(SortDesc(evs), 1, Min(n, Len(evs)))

FindTopDrawdowns(values, dates, n) == TopOf(FindDrawdowns(values, dates), n)

\* the std_dev of a report without daily returns, in percent
VolatilityFallbackPct == 15

\* Series.std(): the sample standard deviation of the observations, which
\* pandas leaves without value for fewer than two of them; as a term
SeriesStd(xs) == IF Len(xs) < 2 THEN NaN ELSE [std_of |-> xs]

\* x * np.sqrt(k), as a term
TimesSqrt(x, k) ==
    IF "std_of" \in DOMAIN x THEN [std_of |-> x.std_of, times_sqrt_of |-> k] ELSE NaN

\* std_dev of the "Risk metrics" block
StdDevAnnualized(daily_returns) ==
    IF Len(daily_returns) > 0
    THEN TimesSqrt(SeriesStd(daily_returns), TradingDays)
    ELSE Rat(VolatilityFallbackPct, 100)

\* the days of a calendar month and the months of a year in the calendar of
\* the model's dates
MonthLength == 2

MonthsPerYear == 12

\* d.strftime('%Y-%m')
YearMonth(d) == (d - 1) \div MonthLength

\* the keys str(d.year) and d.strftime('%b') of the grid
MonthKey(d) == <<YearMonth(d) \div MonthsPerYear, YearMonth(d) % MonthsPerYear>>

\* the state before the loop of the "Monthly returns" block
MonthlyStart(dates, values) ==
    [monthly_returns |-> <<>>, month_start_val |-> values[1],
     prev_month |-> YearMonth(dates[1])]

\* one pass of the loop, for the i-th point
MonthlyStep(st, dates, values, i) ==
    IF YearMonth(dates[i]) # st.prev_month \/ i = Len(dates)
    THEN LET prev_date == IF i > 1 THEN dates[i - 1] ELSE dates[1]
             prev_val == IF i > 1 THEN values[i - 1] ELSE values[Len(values)]
             port_ret == IF RGt(st.month_start_val, Zero)
                         THEN RDiv(RSub(prev_val, st.month_start_val), st.month_start_val)
                         ELSE Zero
         IN  [monthly_returns |-> (MonthKey(prev_date) :> port_ret) @@ st.monthly_returns,
              month_start_val |-> values[i],
              prev_month |-> YearMonth(dates[i])]
    ELSE st

RECURSIVE MonthlyLoop(_, _, _, _)
MonthlyLoop(st, dates, values, i) ==
    IF i > Len(dates)
    THEN st
    ELSE MonthlyLoop(MonthlyStep(st, dates, values, i), dates, values, i + 1)

\* monthly_returns, keyed by year and month
MonthlyReturns(dates, values) ==
    MonthlyLoop(MonthlyStart(dates, values), dates, values, 1).monthly_returns

\* the periods of the "Trailing returns" block and their offsets in points
TrailingPeriods ==
    <<<<"1W", 5>>, <<"1M", 21>>, <<"3M", 63>>, <<"6M", 126>>, <<"1Y", 252>>,
      <<"3Y", 756>>, <<"5Y", 1260>>>>

\* the offset of a period
OffsetOf(period) ==
    TrailingPeriods[CHOOSE i \in 1..Len(TrailingPeriods) : TrailingPeriods[i][1] = period][2]

\* TrailingReturn that looks back td - 1 points
TrailingReturn_OneLess(values, td) ==
    LET n == Len(values)
    IN  RDiv(RSub(values[n], values[n - td + 1]), values[n - td + 1])

\* (values[-1] - values[-td-1]) / values[-td-1]
TrailingReturn(values, td) ==
    LET n == Len(values)
    IN  RDiv(RSub(values[n], values[n - td]), values[n - td])

\* trailing, keyed by period
TrailingReturns(values, total_return) ==
    LET days == Len(values)
        one_day == IF days >= 2 THEN {"1D"} ELSE {}
        periods == {TrailingPeriods[i][1] : i \in {j \in 1..Len(TrailingPeriods) :
                                                      days > TrailingPeriods[j][2]}}
    IN  [k \in one_day \cup periods \cup {"YTD"} |->
            IF k = "YTD" THEN total_return
            ELSE IF k = "1D" THEN TrailingReturn(values, 1)
            ELSE TrailingReturn(values, OffsetOf(k))]

\* period_days of the "Regime stats" block: the indexes of the points of the
\* curve with start <= p.date <= end
PeriodDays(period, curve) ==
    {i \in 1..Len(curve) : period.start <= curve[i].date /\ curve[i].date <= period.end}

\* the returns list of the regime r, over the periods from the j-th on
RECURSIVE PeriodReturns(_, _, _, _)
PeriodReturns(periods, curve, r, j) ==
    IF j > Len(periods)
    THEN <<>>
    ELSE LET period_days == PeriodDays(periods[j], curve)
             first == CHOOSE i \in period_days : \A k \in period_days : i <= k
             last == CHOOSE i \in period_days : \A k \in period_days : k <= i
             start_val == curve[first].portfolio_value
             end_val == curve[last].portfolio_value
         IN  (IF periods[j].regime = r /\ period_days # {} /\ RGt(start_val, Zero)
              THEN <<RDiv(RSub(end_val, start_val), start_val)>>
              ELSE <<>>)
             \o PeriodReturns(periods, curve, r, j + 1)

\* regime_stats, keyed by regime: the RegimeStat of every key of regime_counts
RegimeStats(periods, curve, trs) ==
    LET counted == {j \in 1..Len(periods) : PeriodDays(periods[j], curve) # {}}
        keys == {periods[j].regime : j \in counted} \cup {trs[i].regime : i \in 1..Len(trs)}
        days(r) == Cardinality({jd \in (1..Len(periods)) \X (1..Len(curve)) :
                                   /\ periods[jd[1]].regime = r
                                   /\ jd[2] \in PeriodDays(periods[jd[1]], curve)})
        total_days == Len(curve)
    IN  [r \in keys |->
            [regime |-> r,
             days |-> days(r),
             pct_time |-> IF total_days > 0
                          THEN RMul(Rat(days(r), total_days), R(100))
                          ELSE Zero,
             total_return |-> RSum(PeriodReturns(periods, curve, r, 1)),
             num_trades |-> Cardinality({i \in 1..Len(trs) : trs[i].regime = r})]]

\* the BacktestResults of _calculate_results
BacktestResults(cfg, curve, trs, periods) ==
    LET starting == cfg.starting_value
        ending == curve[Len(curve)].portfolio_value
        total_return == RDiv(RSub(ending, starting), starting)
        days == Len(curve)
        annualized_return == Annualized(total_return, days)
        benchmark_start == curve[1].benchmark_value
        benchmark_end == curve[Len(curve)].benchmark_value
        benchmark_total_return ==
            RDiv(RSub(benchmark_end, benchmark_start), benchmark_start)
        benchmark_annualized == Annualized(benchmark_total_return, days)
        portfolio_values == PortfolioValues(curve)
        benchmark_values == BenchmarkValues(curve)
        ba == BetaAlpha(PctChange(portfolio_values), PctChange(benchmark_values),
                        annualized_return, benchmark_annualized)
    IN  [starting_value |-> starting,
         ending_value |-> ending,
         total_return |-> total_return,
         annualized_return |-> annualized_return,
         benchmark_total_return |-> benchmark_total_return,
         benchmark_annualized_return |-> benchmark_annualized,
         max_drawdown |-> MaxDrawdown(portfolio_values),
         std_dev_annualized |-> StdDevAnnualized(PctChange(portfolio_values)),
         beta |-> ba.beta,
         alpha |-> ba.alpha,
         monthly_returns |-> MonthlyReturns(CurveDates(curve), portfolio_values),
         trailing_returns |-> TrailingReturns(portfolio_values, total_return),
         regime_stats |-> RegimeStats(periods, curve, trs),
         top_drawdowns |-> FindTopDrawdowns(portfolio_values, CurveDates(curve), TopN),
         total_trades |-> Len(trs)]

\* return self._calculate_results(config, regime_periods)
CalculateResults ==
    /\ pc = "done"
    /\ results' = BacktestResults(config, equity_curve, trades, regime_periods)
    /\ drawdowns' = FindDrawdowns(PortfolioValues(equity_curve), CurveDates(equity_curve))
    /\ positions' = RefreshPrices(positions, price)
    /\ pc' = "reported"
    /\ UNCHANGED <<inputVars, serviceVars, first_run, price, day, row, current_regime, cash, trades,
                   shv_position, equity_curve, new_regime, portfolio_value,
                   initial_benchmark_price, periodVars, todo, capital, reason, ret,
                   exitVars, before>>

Next ==
    \/ Start
    \/ Allocate
    \/ NextDay
    \/ CheckDay
    \/ Liquidate
    \/ LiquidateShv
    \/ Reallocate
    \/ SetRegime
    \/ ExitRule
    \/ Reinvest
    \/ RecordEquity
    \/ Finish
    \/ CalculateResults

Spec == Init /\ [][Next]_vars

(***************************************************************************)
(* The regime timeline on its own: what run() does to row, new_regime and  *)
(* self.current_regime on each date.  No trade reads or writes them, so    *)
(* the ledger is left out and the rows can be drawn from a wider set.      *)
(***************************************************************************)
PolicyRows ==
    {GridDataRow(s, g, r, i, d, <<>>) :
        s \in (SumThreshold - 1)..(SumThreshold + 1),
        g \in 0..MaxCount, r \in 0..MaxCount,
        i \in 0..MaxCount, d \in 0..MaxCount}

\* the engine on some date of a run: any regime, any row just read
InitPolicy ==
    /\ pc = "policy"
    /\ records = OpenRecords
    /\ grid_data = OpenFeed
    /\ risk_profile = FullProfile
    /\ config = [starting_value |-> R(StartingValue), benchmark_ticker |-> BenchmarkTicker,
                 start_date |-> 1, end_date |-> MaxDays]
    /\ results = NoResults
    /\ drawdowns = <<>>
    /\ first_run = NoRun
    /\ rng = InitialRng
    /\ price_cache = NoCache
    /\ lookup = NoLookup
    /\ price = [t \in Tickers |-> Absent]
    /\ day = 1
    /\ row \in PolicyRows
    /\ current_regime \in Regimes
    /\ positions = <<>>
    /\ cash = Zero
    /\ shv_position = Zero
    /\ trades = <<>>
    /\ equity_curve = <<>>
    /\ new_regime = NoRegime
    /\ portfolio_value = Zero
    /\ initial_benchmark_price = Zero
    /\ regime_periods = <<>>
    /\ current_regime_start = 1
    /\ todo = <<>>
    /\ capital = Zero
    /\ reason = <<>>
    /\ ret = "loop"
    /\ returned_cash = Zero
    /\ total_equity = Zero
    /\ before = NoBefore

\* one date of the main loop, reduced to the regime
PolicyDay ==
    /\ pc = "policy"
    /\ new_regime' = CheckRegimeChange(row, current_regime)
    /\ current_regime' = IF new_regime' # NoRegime THEN new_regime' ELSE current_regime
    /\ pc' = "policy_done"
    /\ UNCHANGED <<inputVars, serviceVars, reportVars, price, day, row, ledgerVars, shv_position, equity_curve,
                   portfolio_value, initial_benchmark_price, periodVars, todo,
                   capital, reason, ret, exitVars, before>>

SpecPolicy == InitPolicy /\ [][PolicyDay]_vars

\* the spread of regime r over its opposing regime in a row
Spread(rw, r) == Confirmings(rw)[r] - Confirmings(rw)[OPPOSING_REGIMES[r]]

\* r has the highest confirming count of the row (possibly tied)
IsHighest(rw, r) == \A q \in Regimes : Confirmings(rw)[q] <= Confirmings(rw)[r]

(***************************************************************************)
(* C1.  Regime-change gate: on a date whose row has a sum of confirming    *)
(* markets <= 59 the check returns no change and the active regime after   *)
(* the date is the regime before it, whatever the four counts and the      *)
(* current regime are.                                                     *)
(***************************************************************************)
C1_RegimeChangeGate ==
    [][row.sum_confirming_markets <= 59
          => new_regime' = NoRegime /\ current_regime' = current_regime]_vars

\* a date with sum <= 59 on which another regime leads with a spread above 2
C1_Witness ==
    /\ pc = "policy_done"
    /\ row.sum_confirming_markets = 59
    /\ \E r \in Regimes \ {current_regime} :
          IsHighest(row, r) /\ Spread(row, r) > 2
    /\ new_regime = NoRegime

(***************************************************************************)
(* C2.  Spread gate: on a date whose row has sum > 59 and whose candidate  *)
(* (the highest-count regime) is not the current regime, the change to the *)
(* candidate is confirmed if and only if the candidate's count minus its   *)
(* opposing regime's count is strictly greater than 2.                     *)
(***************************************************************************)
C2_SpreadGate ==
    [][(row.sum_confirming_markets > 59 /\ Candidate(row) # current_regime)
          => ((new_regime' = Candidate(row) /\ current_regime' = Candidate(row))
                 <=> Spread(row, Candidate(row)) > 2)]_vars

\* a change confirmed at a spread of exactly 3
C2_Witness ==
    /\ pc = "policy_done"
    /\ row.sum_confirming_markets > 59
    /\ new_regime = Candidate(row)
    /\ current_regime = new_regime
    /\ Spread(row, new_regime) = 3

(***************************************************************************)
(* C3.  Only the single highest-count regime is a candidate: the check     *)
(* returns no change or that candidate, no change when the candidate is    *)
(* the current regime, never a second-best regime; a confirmed change goes *)
(* to a regime other than the current one, and the active regime is always *)
(* one of the four regimes.                                                *)
(***************************************************************************)
C3_SingleCandidate ==
    [][/\ new_regime' \in {NoRegime, Candidate(row)}
       /\ Candidate(row) = current_regime => new_regime' = NoRegime
       /\ new_regime' # NoRegime
             => /\ IsHighest(row, new_regime')
                /\ new_regime' # current_regime
                /\ current_regime' = new_regime'
       /\ current_regime' \in Regimes]_vars

\* the candidate failed (or is the current regime) although another regime
\* passes the spread test: no change
C3_Witness ==
    /\ pc = "policy_done"
    /\ row.sum_confirming_markets > 59
    /\ new_regime = NoRegime
    /\ \E r \in Regimes \ {current_regime, Candidate(row)} : Spread(row, r) > 2

(***************************************************************************)
(* Runs over a wider set of inputs: a second profile (a crypto instrument, *)
(* an unconfigured regime, weights below 1) and a starting capital so      *)
(* small that every target share count is negligible.                      *)
(***************************************************************************)
\* 1/DustCapitalInv is the small starting capital
DustCapitalInv == 1000

InitCfg ==
    InitWith({FullProfile, PartialProfile}, {R(StartingValue), Rat(1, DustCapitalInv)},
             {OpenRecords}, {Window(1, MaxDays)})

SpecCfg == InitCfg /\ [][Next]_vars

(***************************************************************************)
(* What the claims about capital measure, written from the day's prices    *)
(* and not from the prices stored in the positions.                        *)
(***************************************************************************)
\* the reserve holding at the day's SHV price
ReserveValue == RMul(shv_position, price[ReserveTicker])

\* the open positions at the day's prices
PositionsValue == ValueAtPrices(positions, price)

\* cash + reserve value + positions at the day's prices
TotalValue == TotalValueOf(cash, shv_position, positions, price)

\* a regime transition has run up to the assignment of the new regime
TransitionDone == pc = "set_regime"

SameStance ==  IsRiskOn(current_regime) <=> IsRiskOn(new_regime)

(***************************************************************************)
(* C4.  Per-trade self-financing: every step of a run that executes a      *)
(* trade (a buy or a sell appended to the trade log) leaves cash + reserve *)
(* value + position values at the day's prices unchanged.                  *)
(***************************************************************************)
C4_TradeSelfFinancing ==
    [][Len(trades') > Len(trades)
          => TotalValueOf(cash', shv_position', positions', price') = TotalValue]_vars

\* sells of a liquidation and a buy into an open position have both happened
C4_Witness ==
    /\ \E i \in 1..Len(trades) : trades[i].action = "SELL"
    /\ \E i \in 1..Len(trades) :
          /\ trades[i].action = "BUY"
          /\ trades[i].reason = <<"XLK VAMS improved - reinvesting cash">>

(***************************************************************************)
(* C5.  A regime transition is self-financing as a whole: when a confirmed *)
(* change has been carried out (liquidation and reallocation), the total   *)
(* portfolio value at the day's prices equals the total at the same prices *)
(* before the transition, whatever the stances of the two regimes.         *)
(***************************************************************************)
C5_TransitionSelfFinancing ==
    TransitionDone => TotalValue = before.value

\* a risk-off to risk-on transition that sold positions and the reserve
C5_Witness ==
    /\ TransitionDone
    /\ ~IsRiskOn(current_regime)
    /\ IsRiskOn(new_regime)
    /\ RGt(before.shv_position, Zero)
    /\ positions # <<>>

(***************************************************************************)
(* C6.  Risk-off transition split: after a confirmed change from a risk-on *)
(* to a risk-off regime whose weights sum to 1 and whose instruments are   *)
(* all supported, priced and given a target share count above 0.001, with  *)
(* V the total portfolio value before the transition, the reserve is worth *)
(* 0.25 V, the positions are worth 0.75 V and no cash is left.             *)
(***************************************************************************)
RiskOffEntry == TransitionDone /\ IsRiskOn(current_regime) /\ ~IsRiskOn(new_regime)

NewItems == AllocationItems(risk_profile, new_regime)

WeightsSumToOne == SumWeights(NewItems) = R(1)

AllPriced == \A i \in 1..Len(NewItems) : Truthy(GetPrice(price, NewItems[i][1]))

\* every instrument of the new regime is bought: it is no crypto instrument
\* and its share of 0.75 V buys more than 0.001 shares
AllBought ==
    \A i \in 1..Len(NewItems) :
        /\ NewItems[i][1] \notin Crypto
        /\ RGt(RDiv(RMul(RMul(before.value, Rat(3, 4)), NewItems[i][2]),
                    GetPrice(price, NewItems[i][1])),
               Rat(1, 1000))

SplitQuarter ==
    /\ ReserveValue = RMul(before.value, Rat(1, 4))
    /\ PositionsValue = RMul(before.value, Rat(3, 4))
    /\ cash = Zero

C6_RiskOffSplit ==
    (RiskOffEntry /\ WeightsSumToOne /\ AllPriced /\ AllBought) => SplitQuarter

\* C6 as first stated, without the condition on the share counts
C6_Original ==
    (RiskOffEntry /\ WeightsSumToOne /\ AllPriced) => SplitQuarter

\* a risk-off entry from an invested portfolio into two priced instruments
C6_Witness ==
    /\ RiskOffEntry
    /\ WeightsSumToOne /\ AllPriced /\ AllBought
    /\ RGt(before.value, Zero)
    /\ before.cash = Zero
    /\ Len(positions) = 2

(***************************************************************************)
(* C7.  The deflation exit rule conserves capital: when the rule has run,  *)
(* the reserve holding is zero, the notionals of the extra buys sum to the *)
(* reserve's value, cash is what it was before the rule fired and the      *)
(* total portfolio value is unchanged.                                     *)
(***************************************************************************)
XlkReason == <<"XLK VAMS improved - reinvesting cash">>

\* the sum of the values of the trades of ts made on date d by the exit rule
RECURSIVE ExitBuyNotional(_, _)
ExitBuyNotional(ts, d) ==
    IF ts = <<>>
    THEN Zero
    ELSE RAdd(IF ts[1].date = d /\ ts[1].reason = XlkReason /\ ts[1].action = "BUY"
              THEN ts[1].value
              ELSE Zero,
              ExitBuyNotional(Tail(ts), d))

C7_ExitRuleConserves ==
    [][(pc \in {"exit_rule", "reinvest"} /\ pc' = "record")
          => /\ shv_position' = Zero
             /\ ExitBuyNotional(trades', today) = RMul(before.shv_position, price[ReserveTicker])
             /\ cash' = before.cash
             /\ TotalValueOf(cash', shv_position', positions', price') = before.value]_vars

(***************************************************************************)
(* C8.  Deflation exit rule trigger: on a date the rule fires if and only  *)
(* if no regime change was confirmed on it, the active regime is           *)
(* DEFLATION, the reserve holding is positive and the row's XLK signal is  *)
(* >= 0 (a row without an XLK signal never fires); the rule never runs on  *)
(* the date of a regime change nor in another regime.                      *)
(***************************************************************************)
C8_ExitRuleTrigger ==
    [][/\ pc = "check"
          => (pc' = "exit_rule"
                 <=> /\ new_regime' = NoRegime
                     /\ current_regime = "DEFLATION"
                     /\ RGt(shv_position, Zero)
                     /\ "XLK" \in DOMAIN row.vams
                     /\ row.vams["XLK"] >= 0)
       /\ pc' \in {"exit_rule", "reinvest"}
          => /\ current_regime' = "DEFLATION"
             /\ new_regime' = NoRegime
             /\ pc' = "reinvest" => shv_position' = Zero]_vars

\* the rule has fired and is reinvesting the reserve
C8_Witness ==
    /\ pc = "reinvest"
    /\ RGt(before.shv_position, Zero)
    /\ RGt(returned_cash, Zero)

(***************************************************************************)
(* C9.  The reserve is held only in risk-off regimes: every equity curve   *)
(* point recorded in a risk-on regime has a reserve value of zero, and the *)
(* reserve share count is zero whenever a day closes in a risk-on regime.  *)
(***************************************************************************)
C9_ReserveOnlyRiskOff ==
    /\ \A i \in 1..Len(equity_curve) :
          IsRiskOn(equity_curve[i].regime) => equity_curve[i].cash_value = Zero
    /\ (pc \in {"record", "loop", "done"} /\ IsRiskOn(current_regime))
          => shv_position = Zero

\* a day closed risk-off with a reserve, the next one risk-on
C9_Witness ==
    \E i \in 1..(Len(equity_curve) - 1) :
        /\ ~IsRiskOn(equity_curve[i].regime)
        /\ RGt(equity_curve[i].cash_value, Zero)
        /\ IsRiskOn(equity_curve[i + 1].regime)

(***************************************************************************)
(* C10.  A transition between two regimes of the same risk stance makes no *)
(* reserve adjustment: the reserve holding's value right after the         *)
(* transition equals its value right before it.                            *)
(***************************************************************************)
C10_SameStanceKeepsReserve ==
    (TransitionDone /\ SameStance)
        => ReserveValue = RMul(before.shv_position, price[ReserveTicker])

(***************************************************************************)
(* C11.  Postcondition of _liquidate_all: when it has returned, the        *)
(* position map is empty and the reserve share count is zero, one SELL was *)
(* appended per position open before it, for exactly that position's share *)
(* count, and cash has grown by the sale proceeds plus the reserve's value.*)
(***************************************************************************)
\* _liquidate_all has returned to the transition that called it
AfterLiquidateAll == pc = "reallocate"

\* the trades appended since the day's branch was taken
TradesSinceBranch == SubSeq(trades, before.trades + 1, Len(trades))

C11_LiquidateAllPost ==
    AfterLiquidateAll
        => /\ positions = <<>>
           /\ shv_position = Zero
           /\ Len(TradesSinceBranch) = Len(before.positions)
           /\ \A i \in 1..Len(before.positions) :
                 /\ TradesSinceBranch[i].action = "SELL"
                 /\ TradesSinceBranch[i].ticker = before.positions[i].ticker
                 /\ TradesSinceBranch[i].shares = before.positions[i].shares
           /\ cash = RAdd(RAdd(before.cash,
                               RSum([i \in 1..Len(TradesSinceBranch) |->
                                        TradesSinceBranch[i].value])),
                          RMul(before.shv_position, price[ReserveTicker]))

\* two positions and a reserve have been liquidated
C11_Witness ==
    /\ AfterLiquidateAll
    /\ Len(before.positions) = 2
    /\ RGt(before.shv_position, Zero)
    /\ RGt(cash, before.cash)

(***************************************************************************)
(* Buys on their own: _execute_trade called with BUY, for share counts and *)
(* prices drawn from small sets, on a ledger that starts with cash only.   *)
(***************************************************************************)
\* the number of buys in a sequence
MaxBuys == 3

BuyTickers == {"GLD", "TLT"}

BuyShares == {R(10), Rat(1, 2)}

BuyPrices == {R(100), R(120)}

\* what an engine outside the main loop of a run holds in the variables of
\* the run: the default configuration and the locals of run unset
OutsideRun ==
    /\ records = OpenRecords
    /\ grid_data = OpenFeed
    /\ risk_profile = FullProfile
    /\ config = [starting_value |-> R(StartingValue), benchmark_ticker |-> BenchmarkTicker,
                 start_date |-> 1, end_date |-> MaxDays]
    /\ results = NoResults
    /\ drawdowns = <<>>
    /\ first_run = NoRun
    /\ rng = InitialRng
    /\ day = 1
    /\ row = NoRow
    /\ current_regime = "REFLATION"
    /\ new_regime = NoRegime
    /\ initial_benchmark_price = Zero
    /\ current_regime_start = 1
    /\ todo = <<>>
    /\ capital = Zero
    /\ reason = <<>>
    /\ ret = "loop"
    /\ returned_cash = Zero
    /\ total_equity = Zero
    /\ before = NoBefore

\* a new engine given its starting capital
InitBuys ==
    /\ NoService
    /\ pc = "buy"
    /\ OutsideRun
    /\ regime_periods = <<>>
    /\ price = [t \in Tickers |-> Absent]
    /\ positions = <<>>
    /\ cash = config.starting_value
    /\ shv_position = Zero
    /\ trades = <<>>
    /\ equity_curve = <<>>
    /\ portfolio_value = Zero

\* one call of _execute_trade(date, "BUY", ticker, shares, price, reason)
Buy ==
    /\ pc = "buy"
    /\ Len(trades) < MaxBuys
    /\ \E t \in BuyTickers, sh \in BuyShares, p \in BuyPrices :
          SetLedger(ExecuteTrade(Ledger, current_regime, today, "BUY", t, sh, p,
                                 <<"buy">>))
    /\ UNCHANGED <<inputVars, serviceVars, reportVars, pc, price, day, row, current_regime,
                   shv_position, equity_curve, new_regime, portfolio_value,
                   initial_benchmark_price, periodVars, todo, capital, reason, ret,
                   exitVars, before>>

SpecBuys == InitBuys /\ [][Buy]_vars

(***************************************************************************)
(* C12.  Average-cost accounting: after any sequence of buys with no sell, *)
(* each instrument's position holds the sum of the shares bought of it,    *)
(* its shares times its average cost is the sum of shares_i * price_i over *)
(* those buys, and cash is the starting cash less shares * price of every  *)
(* buy (10 at 100 then 10 at 120 gives 20 shares at average cost 110).     *)
(***************************************************************************)
\* the buys of ticker t in the trade log
BuysOf(t) == SelectSeq(trades, LAMBDA tr : tr.ticker = t /\ tr.action = "BUY")

\* the sum of shares_i * price_i over a list of trades
CostOf(trs) == RSum([i \in 1..Len(trs) |-> RMul(trs[i].shares, trs[i].price)])

SharesOf(trs) == RSum([i \in 1..Len(trs) |-> trs[i].shares])

C12_AverageCost ==
    /\ \A t \in BuyTickers :
          BuysOf(t) # <<>>
             => /\ PosIndex(positions, t) # 0
                /\ LET pos == positions[PosIndex(positions, t)]
                   IN  /\ pos.shares = SharesOf(BuysOf(t))
                       /\ RMul(pos.shares, pos.avg_cost) = CostOf(BuysOf(t))
    /\ cash = RSub(config.starting_value, CostOf(trades))

\* 10 shares at 100 then 10 more at 120: 20 shares at average cost 110
C12_Witness ==
    /\ pc = "buy"
    /\ Len(trades) = 2
    /\ trades[1].ticker = "GLD" /\ trades[1].shares = R(10) /\ trades[1].price = R(100)
    /\ trades[2].ticker = "GLD" /\ trades[2].shares = R(10) /\ trades[2].price = R(120)
    /\ positions[1].shares = R(20)
    /\ positions[1].avg_cost = R(110)

(***************************************************************************)
(* Valuation on its own: _calculate_portfolio_value called on a ledger     *)
(* with one position, whose instrument and the reserve instrument may have *)
(* no quote on the date.                                                   *)
(***************************************************************************)
\* the cash of the ledgers valued
ValueCash == {Zero, R(5)}

\* one row of a price cache in which a quote can be missing
QuoteRows ==
    {pr \in [Tickers -> {R(i) : i \in 1..MaxPrice} \cup {Absent}] :
        pr["TLT"] = Absent /\ pr["Bitcoin"] = Absent}

InitValue ==
    /\ NoService
    /\ pc = "value"
    /\ OutsideRun
    /\ regime_periods = <<>>
    /\ price \in QuoteRows
    /\ positions \in {<<Position("GLD", R(sh), R(last), R(last))>> :
                         sh \in 1..2, last \in 1..MaxPrice}
    /\ cash \in ValueCash
    /\ shv_position \in {Zero, R(1)}
    /\ trades = <<>>
    /\ equity_curve = <<>>
    /\ portfolio_value = Zero

\* portfolio_value = self._calculate_portfolio_value(date)
Valuate ==
    /\ pc = "value"
    /\ portfolio_value' = CalculatePortfolioValue(cash, shv_position, positions, price)
    /\ positions' = RefreshPrices(positions, price)
    /\ pc' = "valued"
    /\ UNCHANGED <<inputVars, serviceVars, reportVars, price, day, row, current_regime, cash,
                   trades, shv_position, equity_curve, new_regime,
                   initial_benchmark_price, periodVars, todo, capital, reason, ret,
                   exitVars, before>>

SpecValue == InitValue /\ [][Valuate]_vars

MaxValue == 3

\* the length of a short series
MaxLen == 5

\* the number of falls below the peak in a zigzag series
MaxDips == 6

\* every non-empty sequence over S of length at most n
SeqsOver(S, n) == UNION {[1..k -> S] : k \in 1..n}

\* a constant benchmark, and one that alternates between 1 and 2
FlatBenchmark(n) == [i \in 1..n |-> 1]

AlternatingBenchmark(n) == [i \in 1..n |-> 1 + (i % 2)]

\* the troughs of a zigzag series: a deep one and a shallow one
TroughLevels == {1, MaxValue}

\* the series peak, t1, peak, t2, ..., peak, tk of the troughs ts, and the
\* same series closed by a last return to the peak
Zigzag(ts) == [i \in 1..(2 * Len(ts)) |-> IF i % 2 = 1 THEN MaxValue + 1 ELSE ts[i \div 2]]

ZigzagClosed(ts) == Append(Zigzag(ts), MaxValue + 1)

ExampleSeries == <<100, 90, 80, 95, 110, 70>>

\* the equity curve of daily values pv and benchmark values bv
CurveOf(pv, bv) ==
    [i \in 1..Len(pv) |-> EquityCurvePoint(i, R(pv[i]), R(bv[i]), "REFLATION", Zero)]

Curves ==
    {CurveOf(pv, FlatBenchmark(Len(pv))) : pv \in SeqsOver(1..MaxValue, MaxLen)}
    \cup {CurveOf(pv, AlternatingBenchmark(Len(pv))) : pv \in SeqsOver(1..MaxValue, MaxLen)}
    \cup {CurveOf(Zigzag(ts), FlatBenchmark(2 * Len(ts))) :
             ts \in SeqsOver(TroughLevels, MaxDips)}
    \cup {CurveOf(ZigzagClosed(ts), FlatBenchmark(2 * Len(ts) + 1)) :
             ts \in SeqsOver(TroughLevels, MaxDips)}
    \cup {CurveOf(ExampleSeries, FlatBenchmark(Len(ExampleSeries)))}

\* run has left its main loop with some equity curve
InitReport ==
    /\ NoService
    /\ pc = "done"
    /\ OutsideRun
    /\ price = [t \in Tickers |-> Absent]
    /\ positions = <<>>
    /\ cash = config.starting_value
    /\ shv_position = Zero
    /\ trades = <<>>
    /\ equity_curve \in Curves
    /\ regime_periods = <<[regime |-> current_regime, start |-> current_regime_start,
                          end |-> equity_curve[Len(equity_curve)].date]>>
    /\ portfolio_value = equity_curve[Len(equity_curve)].portfolio_value

SpecReport == InitReport /\ [][CalculateResults]_vars

\* the report has been computed
Reported == pc = "reported"

\* the portfolio values of the curve, and the index of a date of the curve
Values == PortfolioValues(equity_curve)

IndexOf(d) == CHOOSE i \in 1..Len(equity_curve) : equity_curve[i].date = d

\* the index at which the event e closes; past the end for an open event
CloseIndex(e) == IF e.end_date = NoValue THEN Len(Values) + 1 ELSE IndexOf(e.end_date)

\* values[i] is below a value before it
BelowPeak(i) == \E j \in 1..(i - 1) : RLt(Values[i], Values[j])

(***************************************************************************)
(* C14.  Drawdown closing rule: every event starts at a running peak whose *)
(* next value is strictly below it, stays strictly below that peak until   *)
(* it closes, closes at the first later value >= that peak (or never), has *)
(* as trough the lowest value inside it, and has drawdown_pct = (peak -    *)
(* trough) / peak; every value below the running peak lies inside an       *)
(* event.  100, 90, 80, 95, 110, 70 gives one closed event (peak 100,      *)
(* trough 80, closed at 110) and one open event (peak 110, trough 70).     *)
(***************************************************************************)
EventFollowsRule(e) ==
    LET s == IndexOf(e.start_date)
        l == IndexOf(e.low_date)
        c == CloseIndex(e)
    IN  /\ \A j \in 1..s : RLe(Values[j], Values[s])
        /\ s < l /\ l < c
        /\ \A j \in (s + 1)..(c - 1) :
              /\ RLt(Values[j], Values[s])
              /\ RLe(Values[l], Values[j])
        /\ c <= Len(Values) => RLe(Values[s], Values[c])
        /\ e.drawdown_pct = RDiv(RSub(Values[s], Values[l]), Values[s])

C14_DrawdownClosingRule ==
    Reported
        => /\ \A k \in 1..Len(drawdowns) : EventFollowsRule(drawdowns[k])
           /\ \A i \in 1..Len(Values) :
                 BelowPeak(i)
                    => \E k \in 1..Len(drawdowns) :
                          /\ IndexOf(drawdowns[k].start_date) < i
                          /\ i < CloseIndex(drawdowns[k])

\* the series of the example and its two events
C14_Witness ==
    /\ Reported
    /\ Values = [i \in 1..6 |-> R(ExampleSeries[i])]
    /\ drawdowns =
          <<DrawdownEvent(Rat(20, 100), 1, 3, 5, 4, 2),
            DrawdownEvent(Rat(40, 110), 5, 6, NoValue, 2, NoValue)>>

(***************************************************************************)
(* C15.  Open drawdown: an event with no end date and no recovery length   *)
(* is emitted if and only if the last value of the series is below the     *)
(* running peak; there is at most one such event, and every other event    *)
(* has an end date and a recovery length that is <= its length.            *)
(***************************************************************************)
IsOpen(e) == e.end_date = NoValue /\ e.recovery_days = NoValue

C15_OpenDrawdown ==
    Reported
        => /\ (\E k \in 1..Len(drawdowns) : IsOpen(drawdowns[k]))
                 <=> BelowPeak(Len(Values))
           /\ Cardinality({k \in 1..Len(drawdowns) : IsOpen(drawdowns[k])}) <= 1
           /\ \A k \in 1..Len(drawdowns) :
                 ~IsOpen(drawdowns[k])
                    => /\ drawdowns[k].end_date # NoValue
                       /\ drawdowns[k].recovery_days # NoValue
                       /\ drawdowns[k].recovery_days <= drawdowns[k].length_days

\* a closed event followed by an open one
C15_Witness ==
    /\ Reported
    /\ Len(drawdowns) >= 2
    /\ ~IsOpen(drawdowns[1])
    /\ drawdowns[1].recovery_days >= 2
    /\ IsOpen(drawdowns[Len(drawdowns)])

(***************************************************************************)
(* C16.  Drawdown ranking: the reported list is in non-increasing order of *)
(* drawdown_pct, has at most 5 entries, and holds the largest of the       *)
(* events found: every event left out has a drawdown_pct <= that of every  *)
(* event kept.                                                             *)
(***************************************************************************)
Kept == {results.top_drawdowns[k] : k \in 1..Len(results.top_drawdowns)}

Found == {drawdowns[k] : k \in 1..Len(drawdowns)}

C16_DrawdownRanking ==
    Reported
        => LET top == results.top_drawdowns
           IN  /\ \A k \in 1..(Len(top) - 1) :
                     RLe(top[k + 1].drawdown_pct, top[k].drawdown_pct)
               /\ Len(top) = Min(5, Len(drawdowns))
               /\ Cardinality(Kept) = Len(top)
               /\ Kept \subseteq Found
               /\ \A o \in Found \ Kept : \A e \in Kept :
                     RLe(o.drawdown_pct, e.drawdown_pct)

\* six events found out of order: the first is smaller than later ones,
\* and an event is left out of the five kept
C16_Witness ==
    /\ Reported
    /\ Len(drawdowns) = 6
    /\ Len(results.top_drawdowns) = 5
    /\ RLt(drawdowns[1].drawdown_pct, drawdowns[2].drawdown_pct)
    /\ RLt(drawdowns[1].drawdown_pct, drawdowns[6].drawdown_pct)
    /\ results.top_drawdowns[1] = drawdowns[2]
    /\ Found \ Kept # {}

(***************************************************************************)
(* C17.  Beta/alpha degeneracy: for an equity curve of length 1 or 2       *)
(* (fewer than 2 paired daily returns) the report has beta exactly 1 and   *)
(* alpha exactly 0.                                                        *)
(***************************************************************************)
C17_BetaAlphaDegenerate ==
    (Reported /\ Len(equity_curve) <= 2)
        => results.beta = R(1) /\ results.alpha = Zero

\* one paired daily return, in which portfolio and benchmark both moved
C17_Witness ==
    /\ Reported
    /\ Len(equity_curve) = 2
    /\ equity_curve[1].portfolio_value # equity_curve[2].portfolio_value
    /\ equity_curve[1].benchmark_value # equity_curve[2].benchmark_value
    /\ results.beta = R(1)

(***************************************************************************)
(* Two calls of run() on one engine, with the feed fixed at construction:  *)
(* the second call starts when the first has returned its report.          *)
(***************************************************************************)
\* a profile that holds one instrument in every regime
GoldProfile ==
    [id |-> "gold", allocations |-> [r \in Regimes |-> <<<<"GLD", R(1)>>>>]]

\* a row that confirms nothing, a row that confirms DEFLATION, and a row
\* that confirms nothing and carries an XLK signal of 0
QuietRow == GridDataRow(SumThreshold, 0, 0, 0, 0, <<>>)

DeflationRow == GridDataRow(SumThreshold + 1, 0, 0, 0, RunCount, <<>>)

ExitRow == GridDataRow(SumThreshold, 0, 0, 0, 0, [t \in {"XLK"} |-> 0])

\* one record per date, in date order, for every choice of the rows
TwiceRecords ==
    {[d \in 1..MaxDays |-> Record(d, f[d])] :
        f \in [1..MaxDays -> {QuietRow, DeflationRow, ExitRow}]}

InitTwice ==
    InitWith({GoldProfile}, {R(StartingValue)}, TwiceRecords, {Window(1, MaxDays)})

\* the caller keeps what the first run returned and calls run(config) again
RunAgain ==
    /\ pc = "reported"
    /\ first_run = NoRun
    /\ first_run' = [runs |-> 1, equity_curve |-> equity_curve, trades |-> trades,
                     results |-> results]
    /\ results' = NoResults
    /\ drawdowns' = <<>>
    /\ day' = 0
    /\ new_regime' = NoRegime
    /\ portfolio_value' = Zero
    /\ returned_cash' = Zero
    /\ total_equity' = Zero
    /\ before' = NoBefore
    /\ pc' = "start"
    /\ UNCHANGED <<inputVars, serviceVars, price, row, current_regime, ledgerVars, shv_position,
                   equity_curve, initial_benchmark_price, periodVars, todo, capital,
                   reason, ret>>

NextTwice == Next \/ RunAgain

SpecTwice == InitTwice /\ [][NextTwice]_vars

(***************************************************************************)
(* C18.  Determinism of run: a second run() on the same engine with the    *)
(* same daily records, profile and configuration returns the equity curve, *)
(* the trade log and the report of the first, the prices the run obtains   *)
(* for itself included.                                                    *)
(***************************************************************************)
C18_RunsIdentical ==
    (pc = "reported" /\ first_run # NoRun)
        => /\ equity_curve = first_run.equity_curve
           /\ trades = first_run.trades
           /\ results = first_run.results

(***************************************************************************)
(* C19.  Initial state: every run starts in REFLATION with cash equal to   *)
(* the starting capital, no positions and no reserve; before the first     *)
(* day's transition check the starting capital has been allocated across   *)
(* REFLATION's weights at the first day's prices, by one BUY of capital *  *)
(* weight / price shares per priced instrument whose share count is above  *)
(* 0.001, and by nothing else.                                             *)
(***************************************************************************)
\* run has reset the engine and is about to allocate
AfterReset ==
    pc = "allocate" /\ day = 0 /\ todo = AllocationItems(risk_profile, "REFLATION")

\* the initial allocation is done and the main loop has not started
AfterInitialAllocation == pc = "loop" /\ day = 0

\* the shares the initial allocation aims at for an item of REFLATION
InitialShares(item) ==
    RDiv(RMul(config.starting_value, item[2]), GetPrice(price, item[1]))

\* the trade log that holds one initial BUY per item of the list items
InitialBuys(items) ==
    [i \in 1..Len(items) |->
        Trade(first_date, "BUY", items[i][1], InitialShares(items[i]),
              GetPrice(price, items[i][1]),
              RMul(InitialShares(items[i]), GetPrice(price, items[i][1])),
              "REFLATION", <<"Initial allocation to", "REFLATION">>)]

PricedItems ==
    SelectSeq(AllocationItems(risk_profile, "REFLATION"),
              LAMBDA it : Truthy(GetPrice(price, it[1])))

BoughtItems ==
    SelectSeq(PricedItems, LAMBDA it : RGt(InitialShares(it), Rat(1, 1000)))

StartsInReflation ==
    AfterReset
        => /\ current_regime = "REFLATION"
           /\ cash = config.starting_value
           /\ positions = <<>>
           /\ shv_position = Zero
           /\ trades = <<>>

C19_InitialState ==
    /\ StartsInReflation
    /\ AfterInitialAllocation
          => /\ current_regime = "REFLATION"
             /\ shv_position = Zero
             /\ trades = InitialBuys(BoughtItems)
             /\ cash = RSub(config.starting_value, CostOf(trades))
             /\ PosTickers(positions) = [i \in 1..Len(trades) |-> trades[i].ticker]

\* C19 as first stated: one BUY per priced instrument
C19_Original ==
    /\ StartsInReflation
    /\ AfterInitialAllocation
          => /\ current_regime = "REFLATION"
             /\ shv_position = Zero
             /\ trades = InitialBuys(PricedItems)

\* two instruments bought at different prices, all capital spent
C19_Witness ==
    /\ AfterInitialAllocation
    /\ Len(trades) = 2
    /\ trades[1].price # trades[2].price
    /\ cash = Zero

\* ---------------------------------------------------------------------
\* Runs over feeds given as unordered lists of records with repeated
\* dates, under windows that leave dates out
\* ---------------------------------------------------------------------

MaxRecords == 3

MaxDate == 3

\* the dates of the records of one input list, in the order of the list
DateLists == UNION {[1..n -> 1..MaxDate] : n \in 1..MaxRecords}

\* the row of each date: nothing confirmed on any date, or DEFLATION
\* confirmed on date 1 and an XLK signal of 0 on the later dates
Calendars ==
    {[d \in 1..MaxDate |-> QuietRow],
     [d \in 1..MaxDate |-> IF d = 1 THEN DeflationRow ELSE ExitRow]}

FeedRecords ==
    {[i \in DOMAIN ds |-> Record(ds[i], c[ds[i]])] : ds \in DateLists, c \in Calendars}

\* a window that leaves out the first date and one that leaves out the last
FeedWindows == {Window(2, MaxDate), Window(1, MaxDate - 1)}

InitFeed ==
    InitWith({GoldProfile}, {R(StartingValue)}, FeedRecords, FeedWindows)

\* run() is sequential code: it keeps taking its next step until it
\* returns or raises
SpecFeed == InitFeed /\ [][Next]_vars /\ WF_vars(Next)

\* the distinct dates of the input records
InputDates == {records[i].date : i \in 1..Len(records)}

\* those of them inside [start_date, end_date]
InWindow == {d \in InputDates : config.start_date <= d /\ d <= config.end_date}

\* run() has returned its report or raised its error
Returned == pc \in {"reported", "error"}

\* a step leaves the equity curve alone or appends one point of a later date
AppendsLaterDate ==
    \/ equity_curve' = equity_curve
    \/ /\ Len(equity_curve') = Len(equity_curve) + 1
       /\ SubSeq(equity_curve', 1, Len(equity_curve)) = equity_curve
       /\ equity_curve # <<>> =>
             equity_curve[Len(equity_curve)].date < equity_curve'[Len(equity_curve')].date

\* C20: the run terminates, and then the equity curve has exactly one point
\* per distinct date of the input records inside [start_date, end_date],
\* bounds included, in ascending date order, whatever the order and the
\* repetition of the records and whether or not the day had a transition;
\* every step of the run leaves the points already appended as they are and
\* appends at most one point, of a later date.
C20_EquityCurveDates ==
    /\ [][AppendsLaterDate]_vars
    /\ [](Returned => CurveDates(equity_curve) = SortedSeq(InWindow))
    /\ <>Returned

\* a returned run over three records with a repeated date, out of date
\* order, with two dates in the window, a transition on the first of them
\* and none on the second
C20_Witness ==
    /\ pc = "reported"
    /\ Len(records) = MaxRecords
    /\ \E i, j \in 1..Len(records) : i < j /\ records[i].date = records[j].date
    /\ \E i, j \in 1..Len(records) : i < j /\ records[i].date > records[j].date
    /\ Len(equity_curve) = 2
    /\ equity_curve[1].regime = "DEFLATION"
    /\ Len(regime_periods) = 2

\* ---------------------------------------------------------------------
\* C21: the benchmark value of the equity-curve points
\* ---------------------------------------------------------------------

\* the benchmark instrument's price in the prices of the current date
BenchmarkPrice(pr) == GetPrice(pr, config.benchmark_ticker)

\* the run is past its initialisation and has not raised
Running == pc \notin {"start", "error"}

\* the point a step appends to the equity curve
NewPoint == equity_curve'[Len(equity_curve')]

\* C21: the price the run keeps as the initial benchmark price is the
\* benchmark's price of the first simulated day and never changes afterwards;
\* the point each day appends has benchmark_value = starting capital *
\* (benchmark price of that day / benchmark price of the first day), whatever
\* the regime and the trades of the day; the first point's benchmark value is
\* the starting capital.
C21_BenchmarkValue ==
    [][/\ Running' /\ day' <= 1 => initial_benchmark_price' = BenchmarkPrice(price')
       /\ Running /\ Running' => initial_benchmark_price' = initial_benchmark_price
       /\ pc = "record" =>
             /\ Len(equity_curve') = day
             /\ NewPoint.date = today
             /\ NewPoint.benchmark_value =
                   RMul(config.starting_value,
                        RDiv(BenchmarkPrice(price), initial_benchmark_price))
             /\ day = 1 => NewPoint.benchmark_value = config.starting_value]_vars

\* two recorded days: the first with a transition and the benchmark value
\* at the starting capital, the second with another benchmark price
C21_Witness ==
    /\ Len(equity_curve) = 2
    /\ equity_curve[1].regime = "DEFLATION"
    /\ Len(trades) > 1
    /\ equity_curve[1].benchmark_value = config.starting_value
    /\ equity_curve[2].benchmark_value # config.starting_value

\* ---------------------------------------------------------------------
\* C22: the empty window
\* ---------------------------------------------------------------------

\* what an engine holds when run() has done no simulation work
NothingSimulated ==
    /\ trades = <<>>
    /\ positions = <<>>
    /\ equity_curve = <<>>
    /\ regime_periods = <<>>
    /\ cash = config.starting_value
    /\ shv_position = Zero
    /\ results = NoResults

\* C22: when no date of the input records lies inside [start_date,
\* end_date], run() raises its error: it gets no further than the error, with
\* no trade, no position, no equity-curve point and no report; and the error is
\* raised for no other reason.
C22_EmptyWindow ==
    /\ [](InWindow = {} => pc \in {"start", "error"})
    /\ [](pc = "error" => InWindow = {} /\ NothingSimulated)
    /\ (InWindow = {} ~> pc = "error")

\* a run over records that all lie before the window has raised the error
C22_Witness ==
    /\ pc = "error"
    /\ records # <<>>
    /\ \A i \in 1..Len(records) : records[i].date < config.start_date
    /\ NothingSimulated

\* ---------------------------------------------------------------------
\* C23: a transition into a regime the profile does not configure
\* ---------------------------------------------------------------------

\* the regime being entered has no entry in the profile
Unconfigured == new_regime \notin DOMAIN risk_profile.allocations

\* the trades of the day's branch so far are sales
OnlySales ==
    \A i \in 1..Len(TradesSinceBranch) : TradesSinceBranch[i].action = "SELL"

\* C23: a transition into a regime without entry in the profile goes from
\* the liquidation straight to the assignment of the new regime, which
\* becomes the current regime; its allocation buys nothing, no position is
\* open, and the whole value of the portfolio before the transition is in
\* cash, or, on an entry from a risk-on regime, 75% in cash and 25% in the
\* reserve.
C23_UnconfiguredRegime ==
    [][/\ pc = "reallocate" /\ Unconfigured =>
             /\ pc' = "set_regime"
             /\ UNCHANGED <<trades, positions>>
       /\ pc = "set_regime" /\ Unconfigured =>
             /\ pc' = "record"
             /\ current_regime' = new_regime
             /\ UNCHANGED <<cash, shv_position, positions, trades>>
             /\ positions = <<>>
             /\ OnlySales
             /\ Len(TradesSinceBranch) = Len(before.positions)
             /\ RAdd(cash, ReserveValue) = before.value
             /\ IF IsRiskOn(current_regime)
                THEN /\ cash = RMul(before.value, Rat(3, 4))
                     /\ ReserveValue = RMul(before.value, Rat(1, 4))
                ELSE /\ cash = before.value
                     /\ shv_position = Zero]_vars

\* the day's point is about to be recorded after an entry from REFLATION
\* into INFLATION, which the profile does not configure: positions were
\* sold, none is open and a reserve is held
C23_Witness ==
    /\ pc = "record"
    /\ new_regime = "INFLATION"
    /\ current_regime = "INFLATION"
    /\ "INFLATION" \notin DOMAIN risk_profile.allocations
    /\ before.positions # <<>>
    /\ positions = <<>>
    /\ RGt(shv_position, Zero)
    /\ RGt(cash, Zero)

\* ---------------------------------------------------------------------
\* _allocate_to_regime on an engine whose price service can miss a quote,
\* followed by the valuation of that day and of the later days
\* ---------------------------------------------------------------------

\* one row of a price cache in which any quote can be missing
AllocRows ==
    {pr \in [Tickers -> {R(i) : i \in 1..MaxPrice} \cup {Absent}] :
        pr["Bitcoin"] = Absent}

\* a new engine about to allocate its capital to a regime of its profile
InitAlloc ==
    /\ pc = "allocate"
    /\ records = OpenRecords
    /\ grid_data = OpenFeed
    /\ risk_profile = FullProfile
    /\ \E sv \in {R(StartingValue), Rat(1, DustCapitalInv)} :
          config = [starting_value |-> sv, benchmark_ticker |-> BenchmarkTicker,
                    start_date |-> 1, end_date |-> MaxDays]
    /\ results = NoResults
    /\ drawdowns = <<>>
    /\ first_run = NoRun
    /\ rng = InitialRng
    /\ price_cache = NoCache
    /\ lookup = NoLookup
    /\ day = 1
    /\ row = NoRow
    /\ current_regime \in Regimes
    /\ new_regime = NoRegime
    /\ initial_benchmark_price = Zero
    /\ regime_periods = <<>>
    /\ current_regime_start = 1
    /\ todo = AllocationItems(risk_profile, current_regime)
    /\ capital = config.starting_value
    /\ reason = <<"Allocated to", current_regime>>
    /\ ret = "value"
    /\ returned_cash = Zero
    /\ total_equity = Zero
    /\ before = NoBefore
    /\ price \in AllocRows
    /\ positions = <<>>
    /\ cash = config.starting_value
    /\ shv_position = Zero
    /\ trades = <<>>
    /\ equity_curve = <<>>
    /\ portfolio_value = Zero

\* the next date of the loop with the quotes the price service has for it
NextQuotes ==
    /\ pc = "valued"
    /\ day < MaxDays
    /\ day' = day + 1
    /\ price' \in AllocRows
    /\ pc' = "value"
    /\ UNCHANGED <<inputVars, serviceVars, reportVars, row, current_regime, ledgerVars, shv_position,
                   equity_curve, new_regime, portfolio_value, initial_benchmark_price,
                   periodVars, todo, capital, reason, ret, exitVars, before>>

NextAlloc == Allocate \/ Valuate \/ NextQuotes

SpecAlloc == InitAlloc /\ [][NextAlloc]_vars

\* the items of the regime allocated to
Items == AllocationItems(risk_profile, current_regime)

\* the trades of the log in the instrument t
TradesIn(t) == SelectSeq(trades, LAMBDA tr : tr.ticker = t)

\* the BUY of capital * weight at the price p, as the only trade in item[1]
OneBuyOf(item, p) ==
    /\ Len(TradesIn(item[1])) = 1
    /\ TradesIn(item[1])[1].action = "BUY"
    /\ TradesIn(item[1])[1].price = p
    /\ TradesIn(item[1])[1].value = RMul(capital, item[2])
    /\ TradesIn(item[1])[1].shares = RDiv(RMul(capital, item[2]), p)

RECURSIVE SumTradeValues(_)
SumTradeValues(trs) ==
    IF trs = <<>> THEN Zero ELSE RAdd(Head(trs).value, SumTradeValues(Tail(trs)))

\* the capital the allocation did not deploy
Undeployed == RSub(capital, SumTradeValues(trades))

\* the allocation is over; on day 1 the prices are still those it saw
Allocated == pc \in {"value", "valued"}

\* the undeployed capital is the cash, and a valuation counts it next to the
\* positions it counts
UndeployedIsCounted ==
    /\ cash = Undeployed
    /\ pc = "valued" =>
          portfolio_value =
             RAdd(Undeployed, SumMarketValue(PricedPositions(positions, price)))

\* C24 (as stated): an instrument without price on the allocation date gets
\* no trade, every other instrument gets one BUY of exactly capital * weight,
\* and the capital not deployed is the cash and is part of the portfolio
\* value of that day and of every later day.
C24_Original ==
    Allocated =>
       /\ day = 1 =>
             \A i \in 1..Len(Items) :
                LET p == GetPrice(price, Items[i][1])
                IN  IF Truthy(p)
                    THEN OneBuyOf(Items[i], p)
                    ELSE TradesIn(Items[i][1]) = <<>>
       /\ UndeployedIsCounted

\* C24: an instrument without price on the allocation date gets no trade;
\* every other instrument whose share count capital * weight / price is
\* greater than 0.001 gets one BUY of exactly capital * weight, whatever
\* instruments were skipped, and one with a smaller share count gets none;
\* the capital not deployed is the cash and is part of the portfolio value
\* of that day and of every later day.
C24_MissingPrice ==
    Allocated =>
       /\ day = 1 =>
             \A i \in 1..Len(Items) :
                LET p == GetPrice(price, Items[i][1])
                IN  IF Truthy(p) /\ RGt(RDiv(RMul(capital, Items[i][2]), p), ShareEpsilon)
                    THEN OneBuyOf(Items[i], p)
                    ELSE TradesIn(Items[i][1]) = <<>>
       /\ UndeployedIsCounted

\* a later day's valuation after an allocation of the full capital in which
\* one of the two instruments had no price: one BUY, the rest of the capital
\* in cash and counted in the value
C24_Witness ==
    /\ pc = "valued"
    /\ day = MaxDays
    /\ capital = R(StartingValue)
    /\ Len(Items) = 2
    /\ Len(trades) = 1
    /\ RGt(cash, Zero)
    /\ RGt(portfolio_value, cash)

\* ---------------------------------------------------------------------
\* C25: the trade log
\* ---------------------------------------------------------------------

\* the steps of run() that call _execute_trade
TradingSteps == {"allocate", "liquidate", "reinvest"}

\* a trade of the log: a side and magnitudes with value = shares * price
WellFormed(tr) ==
    /\ tr.action \in {"BUY", "SELL"}
    /\ RLe(Zero, tr.shares)
    /\ RLe(Zero, tr.value)
    /\ tr.value = RMul(tr.shares, tr.price)

\* the step appends one trade to the log and leaves the earlier ones alone
AppendsOneTrade ==
    /\ Len(trades') = Len(trades) + 1
    /\ SubSeq(trades', 1, Len(trades)) = trades

\* C25: every step of a run leaves the trade log alone or appends exactly
\* one trade, a BUY or a SELL with non-negative shares and value and value =
\* shares * price, keeping every earlier entry; only the steps that call
\* _execute_trade append, and each of them that sells, or changes the cash or
\* the positions, appends; the report's total_trades is the length of the log.
C25_TradeLog ==
    /\ [][/\ \/ trades' = trades
             \/ /\ AppendsOneTrade
                /\ WellFormed(trades'[Len(trades')])
                /\ pc \in TradingSteps
          /\ pc = "liquidate" => AppendsOneTrade
          /\ pc \in TradingSteps /\ <<cash, positions>>' # <<cash, positions>>
                => AppendsOneTrade]_vars
    /\ [](pc = "reported" => results.total_trades = Len(trades))

\* a reported run whose log holds buys and sales
C25_Witness ==
    /\ pc = "reported"
    /\ results.total_trades = Len(trades)
    /\ Len(trades) >= 4
    /\ \E i \in 1..Len(trades) : trades[i].action = "SELL"
    /\ \E i \in 1..Len(trades) : trades[i].action = "BUY" /\ i > 2

\* ---------------------------------------------------------------------
\* PriceDataProvider.get_price on its own, over caches given cell by cell
\* ---------------------------------------------------------------------

\* the dates of a cache index lie in 1..MaxDate
CacheIndexes == {SortedSeq(S) : S \in SUBSET (1..MaxDate)}

CacheColumnSets == {{}, {"GLD"}, {"GLD", "TLT"}}

\* pd.notna(p)
NotNa(p) == p # NaN

\* the price a cache holds on the date d is d, so that the date a price was
\* taken from can be told from the price
QuoteOn(d) == R(d)

\* the cache with the index ix and the columns cs whose cell (d, t) holds a
\* price iff q[d][t]
CacheOf(ix, cs, q) ==
    [fetched |-> TRUE, index |-> ix, columns |-> cs,
     cells |-> [d \in DOMAIN q |-> [t \in cs |-> IF q[d][t] THEN QuoteOn(d) ELSE NaN]]]

Caches ==
    {NoCache} \cup
    UNION {UNION {{CacheOf(ix, cs, q) :
                      q \in [{ix[i] : i \in 1..Len(ix)} -> [cs -> BOOLEAN]]} :
                  cs \in CacheColumnSets} :
           ix \in CacheIndexes}

\* the tickers asked for: two that a cache can hold and one it never holds
LookupTickers == {"GLD", "TLT", "SHV"}

\* the dates asked for: before, inside and after the dates a cache can hold
LookupDates == 0..(MaxDate + 1)

\* FfillIndex with method='bfill': the first index date >= date
FfillIndex_Backfill(index, date) ==
    IF \E i \in 1..Len(index) : index[i] >= date
    THEN CHOOSE i \in 1..Len(index) :
            /\ index[i] >= date
            /\ \A j \in 1..Len(index) : index[j] >= date => j >= i
    ELSE 0

\* index.get_indexer([date], method='ffill')[0], counted from 1: the
\* position of the last index date <= date, 0 when there is none
\* (get_indexer gives -1)
FfillIndex(index, date) ==
    IF \E i \in 1..Len(index) : index[i] <= date
    THEN CHOOSE i \in 1..Len(index) :
            /\ index[i] <= date
            /\ \A j \in 1..Len(index) : index[j] <= date => j <= i
    ELSE 0

\* PriceDataProvider.get_price(ticker, date)
GetPriceAt(cache, ticker, date) ==
    IF ~cache.fetched
    THEN Absent
    ELSE IF ticker \notin cache.columns
         THEN Absent
         ELSE LET idx == FfillIndex(cache.index, date)
              IN  IF idx >= 1
                  THEN LET p == cache.cells[cache.index[idx]][ticker]
                       IN  IF NotNa(p) THEN p ELSE Absent
                  ELSE Absent

InitLookup ==
    /\ pc = "get_price"
    /\ OutsideRun
    /\ regime_periods = <<>>
    /\ price = [t \in Tickers |-> Absent]
    /\ positions = <<>>
    /\ cash = config.starting_value
    /\ shv_position = Zero
    /\ trades = <<>>
    /\ equity_curve = <<>>
    /\ portfolio_value = Zero
    /\ price_cache \in Caches
    /\ lookup \in {[ticker |-> t, date |-> d, result |-> Absent] :
                      t \in LookupTickers, d \in LookupDates}

\* one call of get_price(ticker, date)
GetPriceCall ==
    /\ pc = "get_price"
    /\ lookup' = [lookup EXCEPT
                     !.result = GetPriceAt(price_cache, lookup.ticker, lookup.date)]
    /\ pc' = "got_price"
    /\ UNCHANGED <<inputVars, reportVars, rng, price_cache, price, day, row,
                   current_regime, ledgerVars, shv_position, equity_curve, new_regime,
                   portfolio_value, initial_benchmark_price, periodVars, todo, capital,
                   reason, ret, exitVars, before>>

SpecLookup == InitLookup /\ [][GetPriceCall]_vars

\* the index dates of the cache that are not after the date asked for
DatesUpTo == {price_cache.index[i] : i \in 1..Len(price_cache.index)} \cap
             (0..lookup.date)

\* the most recent of them
AsOfDate == CHOOSE d \in DatesUpTo : \A e \in DatesUpTo : e <= d

\* C26: get_price returns absent when no cache was fetched, when the
\* instrument is no column of the cache and when every cached date is after
\* the date asked for; otherwise it returns what the cache holds for the
\* instrument on the most recent cached date <= the date asked for (absent
\* when that cell holds no price); the price returned is never that of a
\* cached date after the date asked for.
C26_ForwardFill ==
    pc = "got_price" =>
       IF ~price_cache.fetched
       THEN lookup.result = Absent
       ELSE IF lookup.ticker \notin price_cache.columns \/ DatesUpTo = {}
            THEN lookup.result = Absent
            ELSE /\ lookup.result =
                       IF NotNa(price_cache.cells[AsOfDate][lookup.ticker])
                       THEN QuoteOn(AsOfDate)
                       ELSE Absent
                 /\ \A d \in DOMAIN price_cache.cells :
                       d > lookup.date => lookup.result # QuoteOn(d)

\* a call for a date that is not cached, between two cached dates, has
\* returned the price of the earlier one
C26_Witness ==
    /\ pc = "got_price"
    /\ price_cache.fetched
    /\ lookup.date \notin DOMAIN price_cache.cells
    /\ \E d \in DOMAIN price_cache.cells : d > lookup.date
    /\ \E d \in DOMAIN price_cache.cells :
          d < lookup.date /\ lookup.result = QuoteOn(d)

\* ---------------------------------------------------------------------
\* An engine run alone in a process, then a new engine with the same inputs
\* run in a process in which another engine runs too.  Of the other engine
\* only what it shares with this one is kept: numpy's global generator, from
\* which every call of generate_synthetic_prices draws.
\* ---------------------------------------------------------------------

\* the runs of the other engine
MaxOtherRuns == 1

\* the row of the date d in a synthetic cache: the draws are a function of
\* the generator state the cache was generated from
SyntheticRow(cache, d) ==
    [t \in Tickers |->
        IF t \in CacheColumns(risk_profile)
        THEN R(1 + ((cache.generated_from + d) % MaxPrice))
        ELSE Absent]

\* the prices the run reads are those of its cache
ReadsItsCache ==
    /\ pc = "start" /\ pc' # "error" => price' = SyntheticRow(price_cache', first_date)
    /\ pc = "check" => price' = SyntheticRow(price_cache, today)

InitPair ==
    InitWith({GoldProfile}, {R(StartingValue)}, TwiceRecords, {Window(1, MaxDays)})

\* how many times the other engine has fetched its prices
OtherRuns == rng - InitialRng - (IF price_cache.fetched THEN 1 ELSE 0)

\* the first process has ended; a second process starts with the generator in
\* the same state, and a new engine is constructed on the same inputs
NewProcess ==
    /\ pc = "reported"
    /\ first_run = NoRun
    /\ first_run' = [runs |-> 1, equity_curve |-> equity_curve, trades |-> trades,
                     results |-> results, cash |-> cash, positions |-> positions]
    /\ rng' = InitialRng
    /\ price_cache' = NoCache
    /\ price' = [t \in Tickers |-> Absent]
    /\ current_regime' = "REFLATION"
    /\ positions' = <<>>
    /\ cash' = Zero
    /\ shv_position' = Zero
    /\ trades' = <<>>
    /\ equity_curve' = <<>>
    /\ results' = NoResults
    /\ drawdowns' = <<>>
    /\ day' = 0
    /\ new_regime' = NoRegime
    /\ portfolio_value' = Zero
    /\ initial_benchmark_price' = Zero
    /\ regime_periods' = <<>>
    /\ current_regime_start' = 0
    /\ todo' = <<>>
    /\ capital' = Zero
    /\ reason' = <<>>
    /\ ret' = "loop"
    /\ returned_cash' = Zero
    /\ total_equity' = Zero
    /\ before' = NoBefore
    /\ row' = NoRow
    /\ pc' = "start"
    /\ UNCHANGED <<inputVars, lookup>>

\* run() of the other engine, in the second process, reaches its call of
\* get_prices: generate_synthetic_prices draws from the global generator
OtherEngineFetch ==
    /\ first_run # NoRun
    /\ OtherRuns < MaxOtherRuns
    /\ rng' = rng + 1
    /\ UNCHANGED <<inputVars, reportVars, price_cache, lookup, pc, price, day, row,
                   current_regime, ledgerVars, shv_position, equity_curve, new_regime,
                   portfolio_value, initial_benchmark_price, periodVars, todo, capital,
                   reason, ret, exitVars, before>>

NextPair == (Next /\ ReadsItsCache) \/ NewProcess \/ OtherEngineFetch

SpecPair == InitPair /\ [][NextPair]_vars

\* C27: an engine run while another engine runs in the same process ends
\* with the cash, positions, trade log, equity curve and report it ends with
\* when it runs alone.
C27_NoInterference ==
    pc = "reported" /\ first_run # NoRun
        => /\ cash = first_run.cash
           /\ positions = first_run.positions
           /\ trades = first_run.trades
           /\ equity_curve = first_run.equity_curve
           /\ results = first_run.results

(***************************************************************************)
(* C28.  Volatility fallback: for an equity curve of one or two points     *)
(* (fewer than two daily returns) the reported annualized volatility is    *)
(* the fallback constant 0.15, never a number without value.               *)
(***************************************************************************)
C28_VolatilityFallback ==
    Reported /\ Len(equity_curve) <= 2
        => results.std_dev_annualized = Rat(VolatilityFallbackPct, 100)

\* the points of the curve that lie in the month of key m
PointsIn(m) == {i \in 1..Len(equity_curve) : MonthKey(equity_curve[i].date) = m}

FirstPointIn(m) == CHOOSE i \in PointsIn(m) : \A j \in PointsIn(m) : i <= j

LastPointIn(m) == CHOOSE i \in PointsIn(m) : \A j \in PointsIn(m) : j <= i

\* the months in which the curve has a point
MonthsOfCurve == {MonthKey(equity_curve[i].date) : i \in 1..Len(equity_curve)}

(***************************************************************************)
(* C30.  Monthly return grid: every calendar month in which the equity     *)
(* curve has a point has exactly one entry in monthly_returns, under its   *)
(* year and month, and the entry is (value at the month's last point -     *)
(* value at the month's first point) / value at the month's first point,   *)
(* the final month of the run included.                                    *)
(***************************************************************************)
C30_MonthlyGrid ==
    Reported
        => /\ DOMAIN results.monthly_returns = MonthsOfCurve
           /\ \A m \in MonthsOfCurve \cap DOMAIN results.monthly_returns :
                  results.monthly_returns[m] =
                      RDiv(RSub(Values[LastPointIn(m)], Values[FirstPointIn(m)]),
                           Values[FirstPointIn(m)])

\* ---------------------------------------------------------------------
\* The report of curves long enough for the trailing periods.
\* ---------------------------------------------------------------------

\* the curves up to this length, and the lengths at and just past the offset
\* of every period that looks back no further than MaxOffset points
MaxShort == 7

MaxOffset == 21

\* the longest round of values of a curve
MaxRound == 5

TrailLengths ==
    (1..MaxShort)
    \cup {TrailingPeriods[i][2] + e : i \in {j \in 1..Len(TrailingPeriods) :
                                                TrailingPeriods[j][2] <= MaxOffset},
                                      e \in 0..1}

\* values going round 1..m, from the s-th of them on
Sawtooth(n, s, m) == [i \in 1..n |-> 1 + ((i + s) % m)]

TrailingCurves ==
    {CurveOf(Sawtooth(n, s, m), FlatBenchmark(n)) : n \in TrailLengths, s \in 0..1, m \in 2..MaxRound}

\* run has left its main loop with a long equity curve
InitTrailing ==
    /\ NoService
    /\ pc = "done"
    /\ OutsideRun
    /\ price = [t \in Tickers |-> Absent]
    /\ positions = <<>>
    /\ cash = config.starting_value
    /\ shv_position = Zero
    /\ trades = <<>>
    /\ equity_curve \in TrailingCurves
    /\ regime_periods = <<[regime |-> current_regime, start |-> current_regime_start,
                          end |-> equity_curve[Len(equity_curve)].date]>>
    /\ portfolio_value = equity_curve[Len(equity_curve)].portfolio_value

SpecTrailing == InitTrailing /\ [][CalculateResults]_vars

\* the keys trailing_returns has for a curve of n points
KeysFor(n) ==
    (IF n >= 2 THEN {"1D"} ELSE {})
    \cup (IF n > 5 THEN {"1W"} ELSE {})
    \cup (IF n > 21 THEN {"1M"} ELSE {})
    \cup (IF n > 63 THEN {"3M"} ELSE {})
    \cup (IF n > 126 THEN {"6M"} ELSE {})
    \cup (IF n > 252 THEN {"1Y"} ELSE {})
    \cup (IF n > 756 THEN {"3Y"} ELSE {})
    \cup (IF n > 1260 THEN {"5Y"} ELSE {})
    \cup {"YTD"}

\* the number of points a key looks back
LookBack(k) ==
    CASE k = "1D" -> 1
      [] k = "1W" -> 5
      [] k = "1M" -> 21
      [] k = "3M" -> 63
      [] k = "6M" -> 126
      [] k = "1Y" -> 252
      [] k = "3Y" -> 756
      [] k = "5Y" -> 1260

(***************************************************************************)
(* C29.  Trailing returns: for an equity curve of n points, key 1D is      *)
(* present iff n >= 2 and each key with offset k in {1W:5, 1M:21, 3M:63,   *)
(* 6M:126, 1Y:252, 3Y:756, 5Y:1260} is present iff n > k, with value       *)
(* (last - value k points earlier) / value k points earlier; key YTD is    *)
(* always present and equals the total return of the whole run measured    *)
(* from the starting capital.                                              *)
(***************************************************************************)
C29_TrailingReturns ==
    Reported
        => LET n == Len(Values)
               tr == results.trailing_returns
           IN  /\ DOMAIN tr = KeysFor(n)
               /\ \A k \in DOMAIN tr \ {"YTD"} :
                      tr[k] = RDiv(RSub(Values[n], Values[n - LookBack(k)]),
                                   Values[n - LookBack(k)])
               /\ "YTD" \in DOMAIN tr
               /\ tr["YTD"] = RDiv(RSub(Values[n], config.starting_value),
                                   config.starting_value)

\* a curve just long enough for the one-month key has been reported, with
\* differing one-day, one-week and one-month returns
C29_Witness ==
    /\ Reported
    /\ Len(Values) = 22
    /\ {"1D", "1W", "1M"} \subseteq DOMAIN results.trailing_returns
    /\ results.trailing_returns["1M"] # results.trailing_returns["1W"]
    /\ results.trailing_returns["1W"] # results.trailing_returns["1D"]

\* the days and the pct_time of the RegimeStats of the regimes rs, summed
RECURSIVE SumDays(_, _)
SumDays(stats, rs) ==
    IF rs = {}
    THEN 0
    ELSE LET r == CHOOSE x \in rs : TRUE
         IN  stats[r].days + SumDays(stats, rs \ {r})

RECURSIVE SumPctTime(_, _)
SumPctTime(stats, rs) ==
    IF rs = {}
    THEN Zero
    ELSE LET r == CHOOSE x \in rs : TRUE
         IN  RAdd(stats[r].pct_time, SumPctTime(stats, rs \ {r}))

(***************************************************************************)
(* C31.  Regime attribution by days: each simulated day is attributed to   *)
(* exactly one regime, so the days of the RegimeStats summed over all      *)
(* regimes equal the number of equity-curve points and the pct_time values *)
(* sum to 100, for any number of regime changes in the run.                *)
(***************************************************************************)
C31_DaysAttributed ==
    Reported
        => /\ SumDays(results.regime_stats, DOMAIN results.regime_stats) = Len(equity_curve)
           /\ SumPctTime(results.regime_stats, DOMAIN results.regime_stats) = R(100)

\* the last trade of the log, appended by this step
Appended == trades'[Len(trades')]

\* the tickers of a position list
Held(ps) == {ps[i].ticker : i \in 1..Len(ps)}

\* the shares held of a ticker in a position list, 0 without a position
HeldIn(ps, ticker) ==
    IF PosIndex(ps, ticker) = 0 THEN Zero ELSE ps[PosIndex(ps, ticker)].shares

(***************************************************************************)
(* C32.  Negligible-share threshold: in every state of a run each position *)
(* of the position map has shares > 0.001; a sell that takes a position to *)
(* 0.001 shares or less removes it, and no step opens a position of 0.001  *)
(* shares or less.                                                         *)
(***************************************************************************)
C32_NegligibleShares ==
    /\ [](\A i \in 1..Len(positions) : RGt(positions[i].shares, ShareEpsilon))
    /\ [][/\ (/\ Len(trades') = Len(trades) + 1
              /\ Appended.action = "SELL"
              /\ RLe(RSub(HeldIn(positions, Appended.ticker), Appended.shares),
                     ShareEpsilon))
             => Appended.ticker \notin Held(positions')
          /\ \A t \in Held(positions') \ Held(positions) :
                 RGt(HeldIn(positions', t), ShareEpsilon)]_vars

\* a sell has removed its position while other positions are still held, in
\* a run whose capital is too small for some instrument of the profile
C32_Witness ==
    /\ positions # <<>>
    /\ \E i \in 1..Len(trades) :
           trades[i].action = "SELL" /\ trades[i].ticker \notin Held(positions)

\* the weights a list of items gives to Bitcoin and Ethereum, summed
RECURSIVE CryptoWeight(_)
CryptoWeight(items) ==
    IF items = <<>>
    THEN Zero
    ELSE RAdd(IF items[1][1] \in Crypto THEN items[1][2] ELSE Zero,
              CryptoWeight(Tail(items)))

(***************************************************************************)
(* C33.  Unsupported instruments are never traded: no trade of the log and *)
(* no position names Bitcoin or Ethereum, whatever the profile contains;   *)
(* the step of an allocation that meets such an instrument leaves cash,    *)
(* positions and log as they are, so that after the initial allocation the *)
(* capital of its weight is still in cash.                                 *)
(***************************************************************************)
C33_NoCrypto ==
    /\ [](/\ \A i \in 1..Len(trades) : trades[i].ticker \notin Crypto
          /\ \A i \in 1..Len(positions) : positions[i].ticker \notin Crypto
          /\ AfterInitialAllocation =>
                 RLe(RMul(config.starting_value,
                          CryptoWeight(AllocationItems(risk_profile, "REFLATION"))),
                     cash))
    /\ [][pc = "allocate" /\ Head(todo)[1] \in Crypto
              => UNCHANGED <<cash, positions, trades>>]_vars

\* the initial allocation of the profile that gives half of REFLATION to
\* Bitcoin has bought the other instrument and left half the capital in cash
C33_Witness ==
    /\ AfterInitialAllocation
    /\ CryptoWeight(AllocationItems(risk_profile, "REFLATION")) = Rat(1, 2)
    /\ Len(trades) = 1
    /\ cash = RMul(config.starting_value, Rat(1, 2))

(***************************************************************************)
(* C34.  Opposing-regime pairing: OPPOSING_REGIMES is defined for the four *)
(* regimes, the engine's current regime among them, maps no regime to      *)
(* itself, is symmetric, and pairs each risk-on regime with a risk-off     *)
(* regime; RISK_ON_REGIMES and RISK_OFF_REGIMES are disjoint and together  *)
(* are the four regimes.                                                   *)
(***************************************************************************)
C34_OpposingPairs ==
    /\ current_regime \in DOMAIN OPPOSING_REGIMES
    /\ DOMAIN OPPOSING_REGIMES = Regimes
    /\ Cardinality(Regimes) = 4
    /\ \A r \in Regimes :
          /\ OPPOSING_REGIMES[r] \in Regimes \ {r}
          /\ OPPOSING_REGIMES[OPPOSING_REGIMES[r]] = r
          /\ r \in RISK_ON_REGIMES => OPPOSING_REGIMES[r] \in RISK_OFF_REGIMES
    /\ RISK_ON_REGIMES \cap RISK_OFF_REGIMES = {}
    /\ RISK_ON_REGIMES \cup RISK_OFF_REGIMES = Regimes

\* the check has compared a risk-on candidate with its opposing risk-off
\* regime and confirmed the change
C34_Witness ==
    /\ pc = "policy_done"
    /\ new_regime \in RISK_ON_REGIMES
    /\ current_regime = new_regime
    /\ OPPOSING_REGIMES[new_regime] \in RISK_OFF_REGIMES
    /\ Spread(row, new_regime) > SpreadThreshold

\* the places, in the order GOLDILOCKS, REFLATION, INFLATION, DEFLATION, of
\* the regimes with the highest count of a row, and the first of them
HighestPlaces(rw) == {k \in 1..4 : IsHighest(rw, RegimeOrder[k])}

FirstHighest(rw) ==
    RegimeOrder[CHOOSE k \in HighestPlaces(rw) : \A j \in HighestPlaces(rw) : k <= j]

(***************************************************************************)
(* C35.  Tie-break: when several regimes share the highest confirming      *)
(* count the candidate is the first of them in the order GOLDILOCKS,       *)
(* REFLATION, INFLATION, DEFLATION, whatever the current regime is: the    *)
(* outcome of the check is a function of the row and the current regime,   *)
(* namely the first highest regime if the sum is above 59, it is not the   *)
(* current regime and its spread is above 2, and no change otherwise, also *)
(* when the current regime is tied for the highest count behind it.        *)
(***************************************************************************)
C35_TieBreak ==
    [][pc = "policy" =>
          new_regime' = IF /\ row.sum_confirming_markets > SumThreshold
                           /\ FirstHighest(row) # current_regime
                           /\ Spread(row, FirstHighest(row)) > SpreadThreshold
                        THEN FirstHighest(row)
                        ELSE NoRegime]_vars

\* a change to GOLDILOCKS was confirmed on a row on which REFLATION has the
\* same, highest count
C35_Witness ==
    /\ pc = "policy_done"
    /\ new_regime = "GOLDILOCKS"
    /\ Cardinality(HighestPlaces(row)) > 1
    /\ IsHighest(row, "REFLATION")

\* the num_trades of the RegimeStats of the regimes rs, summed
RECURSIVE SumNumTrades(_, _)
SumNumTrades(stats, rs) ==
    IF rs = {}
    THEN 0
    ELSE LET r == CHOOSE x \in rs : TRUE
         IN  stats[r].num_trades + SumNumTrades(stats, rs \ {r})

\* the buys of the log that allocate into the weights of the regime r
AllocatedTo(r) ==
    {i \in 1..Len(trades) :
        trades[i].action = "BUY" /\ trades[i].reason = <<"Allocated to", r>>}

(***************************************************************************)
(* C36.  Trade regime tag: each Trade records the regime active when it is *)
(* executed, so a BUY that allocates into the weights of a newly confirmed *)
(* regime R (reason "Allocated to R") is recorded with regime R, the       *)
(* num_trades of R's RegimeStat counts those buys, and the per-regime      *)
(* trade counts sum to total_trades.                                       *)
(***************************************************************************)
C36_TradeRegimeTag ==
    /\ \A r \in Regimes : \A i \in AllocatedTo(r) : trades[i].regime = r
    /\ Reported =>
          /\ \A r \in Regimes :
                AllocatedTo(r) # {} =>
                    /\ r \in DOMAIN results.regime_stats
                    /\ results.regime_stats[r].num_trades >= Cardinality(AllocatedTo(r))
          /\ SumNumTrades(results.regime_stats, DOMAIN results.regime_stats) =
                 results.total_trades

\* every regime's weights of the profile are >= 0 and sum to at most 1
WeightsWithinOne ==
    \A r \in DOMAIN risk_profile.allocations :
        /\ \A i \in 1..Len(risk_profile.allocations[r]) :
               RLe(Zero, risk_profile.allocations[r][i][2])
        /\ RLe(SumWeights(risk_profile.allocations[r]), R(1))

(***************************************************************************)
(* C37.  Cash is never negative: for a profile whose weights are >= 0 and  *)
(* sum to at most 1 in every regime and a starting capital >= 0, cash >= 0 *)
(* holds after the initial allocation and after the processing of every    *)
(* day, whatever the daily records are, the days on which the deflation    *)
(* exit rule fires included.                                               *)
(***************************************************************************)
C37_CashNonNegative ==
    (WeightsWithinOne /\ RLe(Zero, config.starting_value) /\ pc = "loop")
        => RLe(Zero, cash)

\* the keys of the profile's weight map for a regime
WeightKeys(r) ==
    {AllocationItems(risk_profile, r)[i][1] :
        i \in 1..Len(AllocationItems(risk_profile, r))}

\* the day's point has just been appended to the equity curve
PointRecorded == pc = "loop" /\ day >= 1 /\ Len(equity_curve) = day

(***************************************************************************)
(* C38.  Holdings match the active regime: at every equity-curve point     *)
(* every open position's instrument is a key of the profile's weight map   *)
(* for the regime recorded at that point, which is the engine's current    *)
(* regime: the positions of the previous regime do not survive a           *)
(* transition and the exit rule adds to positions already held.            *)
(***************************************************************************)
C38_HoldingsMatchRegime ==
    PointRecorded
        => /\ equity_curve[day].regime = current_regime
           /\ Held(positions) \subseteq WeightKeys(equity_curve[day].regime)

\* two transitions between regimes with different instruments: the second
\* point is recorded in GOLDILOCKS after a first in DEFLATION, and the only
\* position left is GOLDILOCKS' instrument
C38_Witness ==
    /\ PointRecorded
    /\ day = 2
    /\ equity_curve[1].regime = "DEFLATION"
    /\ equity_curve[2].regime = "GOLDILOCKS"
    /\ WeightKeys("DEFLATION") # WeightKeys("GOLDILOCKS")
    /\ Held(positions) = WeightKeys("GOLDILOCKS")

\* the drawdown_pct of the events of the report
ReportedDrawdowns ==
    {results.top_drawdowns[i].drawdown_pct : i \in 1..Len(results.top_drawdowns)}

(***************************************************************************)
(* C39.  The two drawdown computations agree: for every equity curve the   *)
(* report's max_drawdown (the scan that moves the peak on value > peak)    *)
(* equals the largest drawdown_pct among the events returned by            *)
(* _find_top_drawdowns (which moves the peak on value >= peak), and is 0   *)
(* exactly when no event is found.                                         *)
(***************************************************************************)
C39_DrawdownsAgree ==
    Reported
        => /\ (results.max_drawdown = Zero) <=> (results.top_drawdowns = <<>>)
           /\ results.top_drawdowns # <<>> =>
                 /\ results.max_drawdown \in ReportedDrawdowns
                 /\ \A d \in ReportedDrawdowns : RLe(d, results.max_drawdown)

\* a curve with more events than the report keeps, whose deepest event is
\* not among the first found
C39_Witness ==
    /\ Reported
    /\ Len(drawdowns) > TopN
    /\ \A i \in 1..TopN : RLt(drawdowns[i].drawdown_pct, results.max_drawdown)
    /\ results.max_drawdown = results.top_drawdowns[1].drawdown_pct

\* the part of a day's processing a position of the run belongs to: the
\* price refresh and the transition check, the trades, the equity recording,
\* and the head of the loop
PhaseOf(p) ==
    CASE p = "check" -> 1
      [] p \in {"liquidate", "liquidate_shv", "reallocate", "allocate", "set_regime",
                "exit_rule", "reinvest"} -> 2
      [] p = "record" -> 3
      [] OTHER -> 4

\* the regime recorded at the point before the i-th, REFLATION before the
\* first
RegimeBefore(i) == IF i = 1 THEN "REFLATION" ELSE equity_curve[i - 1].regime

\* the periods start at the first date, end at the last, each starts on
\* the date the one before it ends, and neighbours differ in regime
PeriodsAreTimeline ==
    /\ regime_periods # <<>>
    /\ regime_periods[1].start = first_date
    /\ regime_periods[Len(regime_periods)].end = last_date
    /\ \A i \in 1..(Len(regime_periods) - 1) :
          /\ regime_periods[i + 1].start = regime_periods[i].end
          /\ regime_periods[i + 1].regime # regime_periods[i].regime

(***************************************************************************)
(* C40.  Day ordering and regime timeline: within a day the price refresh, *)
(* the transition check, the trades and the equity recording happen in     *)
(* that order and the next day starts after the recording; the regime      *)
(* recorded at a day's point is the regime after that day's check and      *)
(* differs from the previous day's exactly if the day's record confirmed a *)
(* change; the regime periods start at the first simulated date, end at    *)
(* the last, are contiguous, and adjacent periods have different regimes.  *)
(***************************************************************************)
C40_DayOrder ==
    /\ [][/\ day' # day =>
                /\ pc = "loop" /\ pc' = "check"
                /\ day' = day + 1
                /\ Len(equity_curve) = day
          /\ (day' = day /\ day >= 1 /\ pc' \notin {"done", "reported"}) =>
                PhaseOf(pc') >= PhaseOf(pc)
          /\ price' # price => pc \in {"start", "check"}
          /\ new_regime' # new_regime => pc = "check"
          /\ (trades' # trades /\ day >= 1) => PhaseOf(pc) = 2
          /\ equity_curve' # equity_curve =>
                /\ pc = "record"
                /\ Len(equity_curve') = day
                /\ equity_curve'[day].date = today
                /\ equity_curve'[day].regime = current_regime]_vars
    /\ [](PointRecorded =>
             /\ new_regime # NoRegime => equity_curve[day].regime = new_regime
             /\ new_regime = NoRegime => equity_curve[day].regime = RegimeBefore(day)
             /\ equity_curve[day].regime # RegimeBefore(day) => new_regime # NoRegime)
    /\ [](pc \in {"done", "reported"} => PeriodsAreTimeline)

\* a run of two days, each with a confirmed change: three periods
C40_Witness ==
    /\ Reported
    /\ Len(regime_periods) = 3
    /\ PeriodsAreTimeline
    /\ equity_curve[1].regime # "REFLATION"
    /\ equity_curve[2].regime # equity_curve[1].regime

====
